---------------------------- MODULE Spec2Model ----------------------------
(***************************************************************************)
(* A model of pyote, an operational-transformation engine for a shared     *)
(* linear text buffer (src/pyote/engine.py, operations.py, utils.py).      *)
(*                                                                         *)
(* Linked lists of OperationNode are modelled as sequences of operation    *)
(* records.  copy(node) deep-copies the operation, so the transformers     *)
(* work on values; the two places where the code shares or mutates        *)
(* operation objects in place (_get_concurrent and _merge_sequence) are    *)
(* modelled explicitly.                                                    *)
(***************************************************************************)
EXTENDS Integers, Sequences, FiniteSets, TLC

(***************************************************************************)
(* Bounds of the model.                                                    *)
(***************************************************************************)
\* number of transactions processed locally, over all sites
MaxTx == 3
\* longest document and longest sequences of the transformer harness
MaxDoc == 3
MaxSeq == 2

\* the sites of the session (site ids are totally ordered integers)
Sites == {1, 2}
\* lengths of the text of one local insert, lengths of one local delete
ValueLens == {1, 2}
DeleteLens == {1, 2}

(***************************************************************************)
(* Values: State, InsertOperation, DeleteOperation, TransactionSequence.   *)
(***************************************************************************)
\* Python's None for an Operation.state / Engine.last_state / starting_state
None == [site_id |-> 0, local_time |-> 0, remote_time |-> 0]

State(site_id, local_time, remote_time) ==
    [site_id |-> site_id, local_time |-> local_time, remote_time |-> remote_time]

InsertOperation(position, value) ==
    [position |-> position, value |-> value, state |-> None]

DeleteOperation(position, length) ==
    [position |-> position, length |-> length, state |-> None]

IsInsert(op) == "value" \in DOMAIN op

\* Operation.get_increment
get_increment(op) == IF IsInsert(op) THEN Len(op.value) ELSE -op.length

\* a transaction that does not record the state it starts from
TransactionSequence_without_state(starting_state, inserts, deletes) ==
    [starting_state |-> None, inserts |-> inserts, deletes |-> deletes]

TransactionSequence(starting_state, inserts, deletes) ==
    [starting_state |-> starting_state, inserts |-> inserts, deletes |-> deletes]

Max(a, b) == IF a > b THEN a ELSE b

\* the result of a call: the value returned, or the exception raised
Return(v) == [raised |-> "", value |-> v]
Raise(x) == [raised |-> x, value |-> <<>>]

\* the site-id tie-break of the transformers dereferences both states
TieRaises(existing, incoming) == existing.state = None \/ incoming.state = None
\* a tie-break that ignores the site ids: the existing operation always goes first
ExistingWinsTie_any_site(existing, incoming) == TRUE
ExistingWinsTie(existing, incoming) == existing.state.site_id < incoming.state.site_id

(***************************************************************************)
(* Engine._transform_insert_insert                                         *)
(***************************************************************************)
RECURSIVE TransformInsertInsertLoop(_, _, _, _, _, _, _)
TransformInsertInsertLoop(incoming, existing, i, e, incoming_value_size, existing_value_size, transformed) ==
    IF i > Len(incoming) THEN Return(transformed)
    ELSE IF e > Len(existing) THEN
        TransformInsertInsertLoop(incoming, existing, i + 1, e, incoming_value_size,
            existing_value_size,
            Append(transformed, [incoming[i] EXCEPT !.position = @ + existing_value_size]))
    ELSE
        LET existing_pos == existing[e].position - existing_value_size
            incoming_pos == incoming[i].position - incoming_value_size
        IN  IF existing_pos < incoming_pos THEN
                TransformInsertInsertLoop(incoming, existing, i, e + 1, incoming_value_size,
                    existing_value_size + get_increment(existing[e]), transformed)
            ELSE IF existing_pos = incoming_pos /\ TieRaises(existing[e], incoming[i]) THEN
                Raise("AttributeError")
            ELSE IF existing_pos = incoming_pos /\ ExistingWinsTie(existing[e], incoming[i]) THEN
                TransformInsertInsertLoop(incoming, existing, i, e + 1, incoming_value_size,
                    existing_value_size + get_increment(existing[e]), transformed)
            ELSE
                TransformInsertInsertLoop(incoming, existing, i + 1, e,
                    incoming_value_size + get_increment(incoming[i]), existing_value_size,
                    Append(transformed,
                           [incoming[i] EXCEPT !.position = @ + existing_value_size]))

transform_insert_insert(incoming_sequence, existing_sequence) ==
    TransformInsertInsertLoop(incoming_sequence, existing_sequence, 1, 1, 0, 0, <<>>)

(***************************************************************************)
(* Engine._transform_delete_insert                                         *)
(***************************************************************************)
RECURSIVE TransformDeleteInsertLoop(_, _, _, _, _, _, _)
TransformDeleteInsertLoop(incoming, existing, i, e, incoming_value_size, existing_value_size, transformed) ==
    IF i > Len(incoming) THEN Return(transformed)
    ELSE IF e > Len(existing) THEN
        TransformDeleteInsertLoop(incoming, existing, i + 1, e, incoming_value_size,
            existing_value_size,
            Append(transformed, [incoming[i] EXCEPT !.position = @ + existing_value_size]))
    ELSE
        LET existing_pos == existing[e].position - existing_value_size
            incoming_pos == incoming[i].position - incoming_value_size
        IN  IF existing_pos < incoming_pos THEN
                TransformDeleteInsertLoop(incoming, existing, i, e + 1, incoming_value_size,
                    existing_value_size + get_increment(existing[e]), transformed)
            ELSE IF existing_pos = incoming_pos /\ TieRaises(existing[e], incoming[i]) THEN
                Raise("AttributeError")
            ELSE IF existing_pos = incoming_pos /\ ExistingWinsTie(existing[e], incoming[i]) THEN
                TransformDeleteInsertLoop(incoming, existing, i, e + 1, incoming_value_size,
                    existing_value_size + get_increment(existing[e]), transformed)
            ELSE
                TransformDeleteInsertLoop(incoming, existing, i + 1, e,
                    incoming_value_size + get_increment(incoming[i]), existing_value_size,
                    Append(transformed,
                           [incoming[i] EXCEPT !.position = @ + existing_value_size]))

\* _transform_delete_insert leaving out the deletes of length 0
transform_delete_insert_without_empty(incoming_sequence, existing_sequence) ==
    LET transformed ==
            TransformDeleteInsertLoop(incoming_sequence, existing_sequence, 1, 1, 0, 0, <<>>)
    IN  [transformed EXCEPT !.value = SelectSeq(@, LAMBDA op : op.length > 0)]

transform_delete_insert(incoming_sequence, existing_sequence) ==
    TransformDeleteInsertLoop(incoming_sequence, existing_sequence, 1, 1, 0, 0, <<>>)

(***************************************************************************)
(* Engine._transform_insert_delete                                         *)
(***************************************************************************)
RECURSIVE TransformInsertDeleteLoop(_, _, _, _, _, _, _, _)
TransformInsertDeleteLoop(incoming, existing, i, e, incoming_value_size, existing_value_size, existing_end_point, transformed) ==
    IF i > Len(incoming) THEN Return(transformed)
    ELSE IF e > Len(existing) THEN
        TransformInsertDeleteLoop(incoming, existing, i + 1, e, incoming_value_size,
            existing_value_size, existing_end_point,
            Append(transformed, [incoming[i] EXCEPT !.position = @ + existing_value_size]))
    ELSE
        LET existing_pos == existing[e].position - existing_value_size
            incoming_pos == incoming[i].position - incoming_value_size
            snapped == IF incoming_pos < existing_end_point
                       THEN existing_end_point + incoming_value_size
                       ELSE incoming[i].position
        IN  IF existing_pos < incoming_pos THEN
                TransformInsertDeleteLoop(incoming, existing, i, e + 1, incoming_value_size,
                    existing_value_size + get_increment(existing[e]),
                    existing_pos + existing[e].length, transformed)
            ELSE IF existing_pos = incoming_pos /\ TieRaises(existing[e], incoming[i]) THEN
                Raise("AttributeError")
            ELSE IF existing_pos = incoming_pos /\ ExistingWinsTie(existing[e], incoming[i]) THEN
                TransformInsertDeleteLoop(incoming, existing, i, e + 1, incoming_value_size,
                    existing_value_size + get_increment(existing[e]),
                    existing_pos + existing[e].length, transformed)
            ELSE
                TransformInsertDeleteLoop(incoming, existing, i + 1, e,
                    incoming_value_size + get_increment(incoming[i]), existing_value_size,
                    existing_end_point,
                    Append(transformed,
                           [incoming[i] EXCEPT !.position = snapped + existing_value_size]))

transform_insert_delete(incoming_sequence, existing_sequence) ==
    TransformInsertDeleteLoop(incoming_sequence, existing_sequence, 1, 1, 0, 0, 0, <<>>)

(***************************************************************************)
(* Engine._transform_delete_delete.  `rest` is the incoming list from the  *)
(* current node on (a split splices a new node in front of it); `bound`    *)
(* tells whether the local variable incoming_pos has been assigned, which  *)
(* the drain loop reads without assigning it.                              *)
(***************************************************************************)
RECURSIVE TransformDeleteDeleteLoop(_, _, _, _, _, _, _, _, _, _)
TransformDeleteDeleteLoop(rest, existing, e, existing_value_size, incoming_value_size, existing_end_point, double_count_amount, bound, last_incoming_pos, transformed) ==
    IF rest = <<>> THEN Return(transformed)
    ELSE IF e > Len(existing) THEN
        \* the drain loop (lines 453-472)
        IF ~bound THEN Raise("UnboundLocalError")
        ELSE
            LET incoming == Head(rest)
                clipped == existing_end_point > last_incoming_pos
                position == IF clipped THEN existing_end_point - incoming_value_size
                            ELSE incoming.position
                length == IF clipped
                          THEN Max(0, incoming.length - existing_end_point + last_incoming_pos)
                          ELSE incoming.length
                emitted == [incoming EXCEPT
                              !.position = position - (existing_value_size - double_count_amount),
                              !.length = length]
            IN  TransformDeleteDeleteLoop(Tail(rest), existing, e, existing_value_size,
                    incoming_value_size + incoming.length, existing_end_point,
                    double_count_amount + incoming.length - length, bound, last_incoming_pos,
                    Append(transformed, emitted))
    ELSE
        LET incoming == Head(rest)
            existing_pos == existing[e].position + existing_value_size
            incoming_pos == incoming.position + incoming_value_size
        IN  IF existing_pos < incoming_pos THEN
                TransformDeleteDeleteLoop(rest, existing, e + 1,
                    existing_value_size + existing[e].length, incoming_value_size,
                    existing_pos + existing[e].length, double_count_amount, TRUE, incoming_pos,
                    transformed)
            ELSE IF existing_pos = incoming_pos /\ TieRaises(existing[e], incoming) THEN
                Raise("AttributeError")
            ELSE IF existing_pos = incoming_pos /\ ExistingWinsTie(existing[e], incoming) THEN
                TransformDeleteDeleteLoop(rest, existing, e + 1,
                    existing_value_size + existing[e].length, incoming_value_size,
                    existing_pos + existing[e].length, double_count_amount, TRUE, incoming_pos,
                    transformed)
            ELSE
                LET \* lines 416-423: overlap with the preceding existing delete
                    left == existing_end_point > incoming_pos
                    position1 == IF left THEN existing_end_point - incoming_value_size
                                 ELSE incoming.position
                    length1 == IF left
                               THEN Max(0, incoming.length - existing_end_point + incoming_pos)
                               ELSE incoming.length
                    \* lines 425-445: overlap with the next existing delete
                    right == incoming_pos + incoming.length > existing_pos
                    ends_inside == incoming_pos + incoming.length
                                       < existing_pos + existing[e].length
                    split == right /\ ~ends_inside
                                   /\ incoming_pos # existing_pos + existing[e].length
                    new_length == incoming.length + incoming_pos
                                      - existing_pos - existing[e].length
                    length2 == IF right /\ ends_inside THEN existing_pos - incoming_pos
                               ELSE IF split
                                    THEN length1 - (incoming_pos + incoming.length - existing_pos)
                                    ELSE length1
                    size_after_split == IF split THEN incoming_value_size - new_length
                                        ELSE incoming_value_size
                    double_delta == IF split THEN -new_length ELSE 0
                    next_node == DeleteOperation(
                                     existing_pos + existing[e].length
                                         - (size_after_split + incoming.length),
                                     new_length)
                    emitted == [incoming EXCEPT
                                  !.position = position1
                                                 - (existing_value_size - double_count_amount),
                                  !.length = length2]
                IN  TransformDeleteDeleteLoop(
                        IF split THEN <<next_node>> \o Tail(rest) ELSE Tail(rest),
                        existing, e, existing_value_size,
                        size_after_split + incoming.length, existing_end_point,
                        double_count_amount + incoming.length - length2 + double_delta,
                        TRUE, incoming_pos, Append(transformed, emitted))

transform_delete_delete(incoming_sequence, existing_sequence) ==
    TransformDeleteDeleteLoop(incoming_sequence, existing_sequence, 1, 0, 0, 0, 0,
                              FALSE, 0, <<>>)

(***************************************************************************)
(* Engine._merge_sequence.  The result holds the merged sequence, the      *)
(* value left in self.last_state, and sequence1 as the call leaves it: the *)
(* code adds value_size to node1.value.position in place, before copying.  *)
(***************************************************************************)
RECURSIVE MergeLoop(_, _, _, _, _, _, _)
MergeLoop(sequence1, sequence2, n1, n2, value_size, last_state, merged) ==
    IF n1 > Len(sequence1) /\ n2 > Len(sequence2) THEN
        [sequence |-> merged, last_state |-> last_state, sequence1 |-> sequence1]
    ELSE IF n2 <= Len(sequence2)
            /\ (n1 > Len(sequence1)
                \/ sequence2[n2].position - value_size < sequence1[n1].position) THEN
        MergeLoop(sequence1, sequence2, n1, n2 + 1,
                  value_size + get_increment(sequence2[n2]), sequence2[n2].state,
                  Append(merged, sequence2[n2]))
    ELSE
        LET shifted == [sequence1[n1] EXCEPT !.position = @ + value_size]
        IN  MergeLoop([sequence1 EXCEPT ![n1] = shifted], sequence2, n1 + 1, n2,
                      value_size, last_state, Append(merged, shifted))

\* _merge_sequence without the shift of lines 506 and 525: the operations of
\* sequence1 are emitted at the positions they came with
merge_sequence_unshifted(sequence1, sequence2, last_state) ==
    LET merged == MergeLoop(sequence1, sequence2, 1, 1, 0, last_state, <<>>)
        Came(op) == IF \E k \in 1..Len(sequence1) : sequence1[k].state = op.state
                    THEN sequence1[CHOOSE k \in 1..Len(sequence1) :
                                       sequence1[k].state = op.state]
                    ELSE op
    IN  [merged EXCEPT !.sequence = [k \in 1..Len(merged.sequence) |->
                                         Came(merged.sequence[k])]]

\* _merge_sequence recording the state of the last operation of the merged
\* sequence, whichever sequence it came from
merge_sequence_last_merged(sequence1, sequence2, last_state) ==
    LET merged == MergeLoop(sequence1, sequence2, 1, 1, 0, last_state, <<>>)
    IN  [merged EXCEPT !.last_state =
            IF merged.sequence = <<>> THEN last_state
            ELSE merged.sequence[Len(merged.sequence)].state]

\* _merge_sequence without lines 503 and 522: self.last_state is not recorded
merge_sequence_state_kept(sequence1, sequence2, last_state) ==
    [MergeLoop(sequence1, sequence2, 1, 1, 0, last_state, <<>>)
        EXCEPT !.last_state = last_state]

merge_sequence(sequence1, sequence2, last_state) ==
    MergeLoop(sequence1, sequence2, 1, 1, 0, last_state, <<>>)

(***************************************************************************)
(* Engine._swap_sequence_delete_insert: the value is                       *)
(* (new_sequence1, new_sequence2).                                         *)
(***************************************************************************)
RECURSIVE SwapDeleteInsertLoop(_, _, _, _, _, _, _, _)
SwapDeleteInsertLoop(sequence2, sequence1, n2, n1, size1, size2, new1, new2) ==
    IF n1 > Len(sequence1) /\ n2 > Len(sequence2) THEN
        [new_sequence1 |-> new1, new_sequence2 |-> new2]
    ELSE IF n2 <= Len(sequence2)
            /\ (n1 > Len(sequence1)
                \/ sequence2[n2].position <= sequence1[n1].position - size1) THEN
        SwapDeleteInsertLoop(sequence2, sequence1, n2 + 1, n1, size1,
            size2 - get_increment(sequence2[n2]), new1,
            Append(new2, [sequence2[n2] EXCEPT !.position = @ + size1]))
    ELSE
        SwapDeleteInsertLoop(sequence2, sequence1, n2, n1 + 1,
            size1 + get_increment(sequence1[n1]), size2,
            Append(new1, [sequence1[n1] EXCEPT !.position = @ + size2]), new2)

\* the swap with the deletes handed back as they came
swap_sequence_delete_insert_deletes_kept(sequence2, sequence1) ==
    [new_sequence1 |->
         SwapDeleteInsertLoop(sequence2, sequence1, 1, 1, 0, 0, <<>>, <<>>).new_sequence1,
     new_sequence2 |-> sequence2]

swap_sequence_delete_insert(sequence2, sequence1) ==
    SwapDeleteInsertLoop(sequence2, sequence1, 1, 1, 0, 0, <<>>, <<>>)

(***************************************************************************)
(* Engine._swap_sequence_delete_delete.  `rest1` is sequence1 from the     *)
(* current node on (a split splices the remainder in front of it).         *)
(***************************************************************************)
RECURSIVE SwapDeleteDeleteLoop(_, _, _, _, _, _, _)
SwapDeleteDeleteLoop(sequence2, rest1, n2, size1, size2, new1, new2) ==
    IF rest1 = <<>> /\ n2 > Len(sequence2) THEN
        [new_sequence1 |-> new1, new_sequence2 |-> new2]
    ELSE IF rest1 = <<>> THEN
        \* second drain loop (lines 658-667)
        SwapDeleteDeleteLoop(sequence2, rest1, n2 + 1, size1,
            size2 - get_increment(sequence2[n2]), new1,
            Append(new2, [sequence2[n2] EXCEPT !.position = @ + size1]))
    ELSE IF n2 > Len(sequence2) THEN
        \* first drain loop (lines 648-657)
        SwapDeleteDeleteLoop(sequence2, Tail(rest1), n2,
            size1 - get_increment(Head(rest1)), size2,
            Append(new1, [Head(rest1) EXCEPT !.position = @ + size2]), new2)
    ELSE IF sequence2[n2].position <= Head(rest1).position + size1 THEN
        SwapDeleteDeleteLoop(sequence2, rest1, n2 + 1, size1,
            size2 - get_increment(sequence2[n2]), new1,
            Append(new2, [sequence2[n2] EXCEPT !.position = @ - size1]))
    ELSE
        LET node1 == Head(rest1)
            split == node1.position + size1 + node1.length > sequence2[n2].position
            length == IF split THEN sequence2[n2].position - node1.position - size1
                      ELSE node1.length
            next_node == DeleteOperation(node1.position, node1.length - length)
        IN  SwapDeleteDeleteLoop(sequence2,
                IF split THEN <<next_node>> \o Tail(rest1) ELSE Tail(rest1),
                n2, size1 + length, size2,
                Append(new1, [node1 EXCEPT !.position = @ + size2, !.length = length]),
                new2)

swap_sequence_delete_delete(sequence2, sequence1) ==
    SwapDeleteDeleteLoop(sequence2, sequence1, 1, 0, 0, <<>>, <<>>)

(***************************************************************************)
(* Engine: the fields Engine.__init__ assigns.                             *)
(***************************************************************************)
Engine(site_id) ==
    [site_id |-> site_id, last_state |-> None, inserts |-> <<>>, deletes |-> <<>>,
     time_stamp |-> 0]

\* _assign_timestamps counting on a local copy of self._time_stamp: the
\* operations are stamped, the engine's clock is not advanced
assign_timestamps_clock_kept(self, sequence) ==
    [sequence |-> [k \in 1..Len(sequence) |->
                      [sequence[k] EXCEPT !.state =
                          IF @ = None
                          THEN State(self.site_id, self.time_stamp + k, self.time_stamp + k)
                          ELSE [@ EXCEPT !.local_time = self.time_stamp + k]]],
     time_stamp |-> self.time_stamp]

\* _assign_timestamps reading the clock once: every operation of the call
\* gets the same local time
assign_timestamps_one_reading(self, sequence) ==
    [sequence |-> [k \in 1..Len(sequence) |->
                      [sequence[k] EXCEPT !.state =
                          IF @ = None
                          THEN State(self.site_id, self.time_stamp + 1, self.time_stamp + 1)
                          ELSE [@ EXCEPT !.local_time = self.time_stamp + 1]]],
     time_stamp |-> self.time_stamp + Len(sequence)]

\* Engine._assign_timestamps: the stamped sequence and the new self._time_stamp
assign_timestamps(self, sequence) ==
    [sequence |-> [k \in 1..Len(sequence) |->
                      [sequence[k] EXCEPT !.state =
                          IF @ = None
                          THEN State(self.site_id, self.time_stamp + k, self.time_stamp + k)
                          ELSE [@ EXCEPT !.local_time = self.time_stamp + k]]],
     time_stamp |-> self.time_stamp + Len(sequence)]

\* the operations of `sequence` at the indices `indices`, in that order
Pick(sequence, indices) == [k \in 1..Len(indices) |-> sequence[indices[k]]]

\* the scan of lines 173-180 with >= for >: the operation that matches the
\* starting state counts as concurrent
RECURSIVE IndicesAfter_inclusive(_, _, _)
IndicesAfter_inclusive(sequence, local_ref, k) ==
    IF k > Len(sequence) THEN <<>>
    ELSE (IF sequence[k].state.local_time >= local_ref THEN <<k>> ELSE <<>>)
             \o IndicesAfter_inclusive(sequence, local_ref, k + 1)

RECURSIVE IndicesAfter(_, _, _)
IndicesAfter(sequence, local_ref, k) ==
    IF k > Len(sequence) THEN <<>>
    ELSE (IF sequence[k].state.local_time > local_ref THEN <<k>> ELSE <<>>)
             \o IndicesAfter(sequence, local_ref, k + 1)

\* the local_time of the first operation of `sequence` that matches, or -1
LocalRef(sequence, starting_state) ==
    LET matching == {k \in 1..Len(sequence) :
                        /\ sequence[k].state.site_id = starting_state.site_id
                        /\ sequence[k].state.remote_time = starting_state.remote_time}
    IN  IF matching = {} THEN -1
        ELSE sequence[CHOOSE k \in matching : \A j \in matching : k <= j].state.local_time

\* _get_concurrent without lines 164-165: a starting state that matches no
\* operation makes every local insert concurrent
get_concurrent_unchecked(self, starting_state, insert_sequence) ==
    IF starting_state = None THEN Return([k \in 1..Len(insert_sequence) |-> k])
    ELSE
        LET in_inserts == LocalRef(self.inserts, starting_state)
            local_ref == IF in_inserts = -1 THEN LocalRef(self.deletes, starting_state)
                         ELSE in_inserts
        IN  Return(IndicesAfter(insert_sequence, local_ref, 1))

\* Engine._get_concurrent.  The nodes returned hold the very operation objects
\* of insert_sequence, so the value is the sequence of their indices.
get_concurrent(self, starting_state, insert_sequence) ==
    IF starting_state = None THEN Return([k \in 1..Len(insert_sequence) |-> k])
    ELSE
        LET in_inserts == LocalRef(self.inserts, starting_state)
            local_ref == IF in_inserts = -1 THEN LocalRef(self.deletes, starting_state)
                         ELSE in_inserts
        IN  IF local_ref = -1 THEN Raise("OTException")
            ELSE Return(IndicesAfter(insert_sequence, local_ref, 1))

\* the outcome of a call of the engine: the exception raised (or ""), the engine
\* as the call leaves it, and the value returned
Outcome(raised, self, value) == [raised |-> raised, engine |-> self, value |-> value]

(***************************************************************************)
(* Engine.integrate_remote                                                 *)
(***************************************************************************)
integrate_remote(self, remote_sequence) ==
    LET concurrent == get_concurrent(self, remote_sequence.starting_state, self.inserts)
        local_concurrent_inserts == Pick(self.inserts, concurrent.value)
        transformed_remote_inserts ==
            transform_insert_insert(remote_sequence.inserts, local_concurrent_inserts)
        new_remote_inserts ==
            transform_insert_delete(transformed_remote_inserts.value, self.deletes)
        \* line 59
        stamped_inserts == assign_timestamps(self, transformed_remote_inserts.value)
        \* line 63: merging shifts the operations of self._inserts in place, and
        \* local_concurrent_inserts holds the same operation objects
        merged_inserts == merge_sequence(self.inserts, stamped_inserts.sequence,
                                         self.last_state)
        self1 == [self EXCEPT !.time_stamp = stamped_inserts.time_stamp,
                              !.inserts = merged_inserts.sequence,
                              !.last_state = merged_inserts.last_state]
        shifted_concurrent_inserts == Pick(merged_inserts.sequence1, concurrent.value)
        transformed_local_deletes ==
            transform_delete_insert(self.deletes, stamped_inserts.sequence)
        transformed_remote_deletes ==
            transform_delete_insert(remote_sequence.deletes, shifted_concurrent_inserts)
        new_remote_deletes ==
            transform_delete_delete(transformed_remote_deletes.value,
                                    transformed_local_deletes.value)
        \* line 74
        stamped_deletes == assign_timestamps(self1, new_remote_deletes.value)
        merged_deletes == merge_sequence(transformed_local_deletes.value,
                                         stamped_deletes.sequence, self1.last_state)
        self2 == [self1 EXCEPT !.time_stamp = stamped_deletes.time_stamp,
                               !.deletes = merged_deletes.sequence,
                               !.last_state = merged_deletes.last_state]
    IN  IF concurrent.raised # "" THEN Outcome(concurrent.raised, self, <<>>)
        ELSE IF transformed_remote_inserts.raised # "" THEN
            Outcome(transformed_remote_inserts.raised, self, <<>>)
        ELSE IF new_remote_inserts.raised # "" THEN
            Outcome(new_remote_inserts.raised, self, <<>>)
        ELSE IF transformed_local_deletes.raised # "" THEN
            Outcome(transformed_local_deletes.raised, self1, <<>>)
        ELSE IF transformed_remote_deletes.raised # "" THEN
            Outcome(transformed_remote_deletes.raised, self1, <<>>)
        ELSE IF new_remote_deletes.raised # "" THEN
            Outcome(new_remote_deletes.raised, self1, <<>>)
        ELSE Outcome("", self2,
                     TransactionSequence(remote_sequence.starting_state,
                                         new_remote_inserts.value,
                                         stamped_deletes.sequence))

(***************************************************************************)
(* Engine.process_transaction                                              *)
(***************************************************************************)
process_transaction(self, outgoing_sequence) ==
    LET outgoing_state == self.last_state
        stamped_inserts == assign_timestamps(self, outgoing_sequence.inserts)
        stamped_deletes ==
            assign_timestamps([self EXCEPT !.time_stamp = stamped_inserts.time_stamp],
                              outgoing_sequence.deletes)
        swapped_inserts == swap_sequence_delete_insert(self.deletes, stamped_inserts.sequence)
        transformed_inserts == swapped_inserts.new_sequence1
        transformed_deletes == swapped_inserts.new_sequence2
        new_deletes == swap_sequence_delete_delete(transformed_deletes,
                                                   stamped_deletes.sequence).new_sequence1
        merged_inserts == merge_sequence(self.inserts, transformed_inserts, self.last_state)
        merged_deletes == merge_sequence(transformed_deletes, stamped_deletes.sequence,
                                         merged_inserts.last_state)
    IN  Outcome("",
                [self EXCEPT !.time_stamp = stamped_deletes.time_stamp,
                             !.inserts = merged_inserts.sequence,
                             !.deletes = merged_deletes.sequence,
                             !.last_state = merged_deletes.last_state],
                TransactionSequence(outgoing_state, transformed_inserts, new_deletes))

(***************************************************************************)
(* The text buffer of a site, which the engine's caller keeps: a document  *)
(* is a sequence of characters; an operation is applied to the document    *)
(* that the operations before it in its sequence produced.  An operation   *)
(* that addresses a position outside the document leaves no document.      *)
(***************************************************************************)
NoDocument == <<-1>>

ApplyOperation(document, op) ==
    IF document = NoDocument \/ op.position < 0 THEN NoDocument
    ELSE IF IsInsert(op) THEN
        IF op.position > Len(document) THEN NoDocument
        ELSE SubSeq(document, 1, op.position) \o op.value
                 \o SubSeq(document, op.position + 1, Len(document))
    ELSE
        IF op.length < 0 \/ op.position + op.length > Len(document) THEN NoDocument
        ELSE SubSeq(document, 1, op.position)
                 \o SubSeq(document, op.position + op.length + 1, Len(document))

RECURSIVE ApplySequence(_, _)
ApplySequence(document, sequence) ==
    IF sequence = <<>> THEN document
    ELSE ApplySequence(ApplyOperation(document, Head(sequence)), Tail(sequence))

\* inserts first, then deletes
ApplyTransaction(document, transaction) ==
    ApplySequence(ApplySequence(document, transaction.inserts), transaction.deletes)

\* the document of a history: H_I applied to the empty document, then H_D
Document(self) == ApplySequence(ApplySequence(<<>>, self.inserts), self.deletes)

(***************************************************************************)
(* The transactions a user can make on a document: at most one insert of   *)
(* fresh characters followed by at most one delete, not both absent, with  *)
(* null states (the operations are locally generated).                     *)
(***************************************************************************)
FreshValue(tx, length) == [j \in 1..length |-> 10 * tx + j]

LocalInserts(document, tx) ==
    {<<>>} \cup {<<InsertOperation(p, FreshValue(tx, l))>> :
                     p \in 0..Len(document), l \in ValueLens}

LocalDeletes(length) ==
    {<<>>} \cup {<<DeleteOperation(p, l)>> :
                     <<p, l>> \in {pl \in (0..length) \X DeleteLens : pl[1] + pl[2] <= length}}

LocalTransactions(document, tx) ==
    UNION {{TransactionSequence(None, inserts, deletes) :
                deletes \in LocalDeletes(Len(ApplySequence(document, inserts)))} :
           inserts \in LocalInserts(document, tx)}
        \ {TransactionSequence(None, <<>>, <<>>)}

(***************************************************************************)
(* The session: one engine and one buffer per site, the transactions       *)
(* emitted so far, each site's successful and failed calls, the last call. *)
(***************************************************************************)
VARIABLES engines, buffer, sent, log, call, fn

vars == <<engines, buffer, sent, log, call, fn>>

NoCall == [kind |-> "none", site |-> 0, tx |-> 0, raised |-> ""]
Idle == [name |-> "idle"]

Init ==
    /\ engines = [s \in Sites |-> Engine(s)]
    /\ buffer = [s \in Sites |-> <<>>]
    /\ sent = <<>>
    /\ log = [s \in Sites |-> <<>>]
    /\ call = NoCall
    /\ fn = Idle

\* the transactions site s has tried to integrate, other than those refused
\* for causality
Tried(s) == {log[s][k][2] : k \in {j \in 1..Len(log[s]) : log[s][j][1] # "process"}}
Integrated(s) == {log[s][k][2] : k \in {j \in 1..Len(log[s]) : log[s][j][1] = "integrate"}}

\* The user of site s edits the buffer and the site calls process_transaction
\* and emits the transaction returned.
Local(s) ==
    /\ Len(sent) < MaxTx
    /\ buffer[s] # NoDocument
    /\ \E outgoing \in LocalTransactions(buffer[s], Len(sent) + 1) :
          LET outcome == process_transaction(engines[s], outgoing)
          IN  /\ engines' = [engines EXCEPT ![s] = outcome.engine]
              /\ buffer' = [buffer EXCEPT ![s] = ApplyTransaction(@, outgoing)]
              /\ sent' = Append(sent, [author |-> s, transaction |-> outcome.value,
                                       outgoing |-> outgoing, engine |-> engines[s],
                                       document |-> buffer[s]])
              /\ log' = [log EXCEPT ![s] = Append(@, <<"process", Len(sent) + 1>>)]
              /\ call' = [kind |-> "process", site |-> s, tx |-> Len(sent) + 1,
                          raised |-> ""]
    /\ UNCHANGED fn

\* Site s receives transaction i of another site and calls integrate_remote;
\* it applies the transaction returned to its buffer.  A transaction refused
\* for causality stays deliverable.
Integrate(s, i) ==
    /\ i \in 1..Len(sent)
    /\ sent[i].author # s
    /\ i \notin Tried(s)
    /\ LET outcome == integrate_remote(engines[s], sent[i].transaction)
       IN  /\ engines' = [engines EXCEPT ![s] = outcome.engine]
           /\ buffer' = IF outcome.raised = ""
                        THEN [buffer EXCEPT ![s] = ApplyTransaction(@, outcome.value)]
                        ELSE buffer
           /\ log' = IF outcome.raised = "OTException" THEN log
                     ELSE [log EXCEPT ![s] =
                              Append(@, <<IF outcome.raised = "" THEN "integrate"
                                          ELSE "failed", i>>)]
           /\ call' = [kind |-> "integrate", site |-> s, tx |-> i,
                       raised |-> outcome.raised]
    /\ UNCHANGED <<sent, fn>>

Next ==
    \/ \E s \in Sites : Local(s)
    \/ \E s \in Sites, i \in 1..MaxTx : Integrate(s, i)

Spec == Init /\ [][Next]_vars

(***************************************************************************)
(* Properties of the session.                                              *)
(***************************************************************************)
\* the transactions of the other sites
Remote(s) == {i \in 1..Len(sent) : sent[i].author # s}
\* no call of site s has failed halfway
Healthy(s) == \A k \in 1..Len(log[s]) : log[s][k][1] # "failed"
\* no call of any site has failed halfway
AllHealthy == \A s \in Sites : Healthy(s)
\* site s has integrated every transaction of the other sites
Complete(s) == Integrated(s) = Remote(s)
\* the last two calls of site s: it processed transaction i, then integrated j
ProcessedThenIntegrated(s, i, j) ==
    /\ Len(log[s]) >= 2
    /\ log[s][Len(log[s]) - 1] = <<"process", i>>
    /\ log[s][Len(log[s])] = <<"integrate", j>>

\* C1: convergence in any delivery order.  Two sites that have each
\* integrated all the transactions of the other sites, every call having
\* succeeded, hold the same buffer.
C1_Convergence ==
    \A s, t \in Sites :
        (Complete(s) /\ Complete(t) /\ AllHealthy
            /\ buffer[s] # NoDocument /\ buffer[t] # NoDocument)
        => buffer[s] = buffer[t]

\* the engines that emitted transactions i and j held the same history then,
\* and their sites the same buffer
CommonState(i, j) ==
    /\ sent[i].engine.inserts = sent[j].engine.inserts
    /\ sent[i].engine.deletes = sent[j].engine.deletes
    /\ sent[i].engine.last_state = sent[j].engine.last_state
    /\ sent[i].engine.time_stamp = sent[j].engine.time_stamp
    /\ sent[i].document = sent[j].document

\* C2: TP1 for two sites.  Sites a and b made transactions i and j on a
\* common state; once a has integrated j and b has integrated i, and each
\* applied the transaction returned, the two buffers are equal.
C2_TP1 ==
    \A i, j \in 1..Len(sent) :
        LET a == sent[i].author
            b == sent[j].author
        IN  (a # b /\ CommonState(i, j) /\ AllHealthy
                /\ ProcessedThenIntegrated(a, i, j) /\ ProcessedThenIntegrated(b, j, i)
                /\ buffer[a] # NoDocument /\ buffer[b] # NoDocument)
            => buffer[a] = buffer[b]

\* adjacent operations are ordered by position, ties by ascending site id
EffectOrder(sequence) ==
    \A k \in 1..(Len(sequence) - 1) :
        \/ sequence[k].position < sequence[k + 1].position
        \/ /\ sequence[k].position = sequence[k + 1].position
           /\ sequence[k].state.site_id < sequence[k + 1].state.site_id

\* C3: effect-order invariant.  After every call of integrate_remote or
\* process_transaction, no call having failed, H_I and H_D are each ordered by
\* position, operations at one position by ascending site id.
C3_EffectOrder ==
    AllHealthy =>
        \A s \in Sites :
            EffectOrder(engines[s].inserts) /\ EffectOrder(engines[s].deletes)

\* the history of an engine: H_I followed by H_D
History(self) == self.inserts \o self.deletes

\* C4: timestamp uniqueness.  In every engine state no two operations of
\* H_I and H_D have the same local_time, and no local_time exceeds the
\* engine's time_stamp.
C4_TimestampsUnique ==
    \A s \in Sites :
        LET history == History(engines[s])
        IN  /\ \A k, l \in 1..Len(history) :
                   k # l => history[k].state.local_time # history[l].state.local_time
            /\ \A k \in 1..Len(history) :
                   history[k].state.local_time <= engines[s].time_stamp

\* C4 at work: a site whose history holds its own operations and those of a
\* transaction it integrated
C4_Witness ==
    \E s \in Sites :
        /\ Integrated(s) # {}
        /\ \E k, l \in 1..Len(History(engines[s])) :
               /\ History(engines[s])[k].state.site_id = s
               /\ History(engines[s])[l].state.site_id # s

\* starting_state is not null and matches no operation of H_I or H_D
CausalityNotMet(self, starting_state) ==
    /\ starting_state # None
    /\ \A k \in 1..Len(History(self)) :
           \/ History(self)[k].state.site_id # starting_state.site_id
           \/ History(self)[k].state.remote_time # starting_state.remote_time

\* C5: a causality failure is side-effect free.  A call of integrate_remote
\* whose starting_state is not null and matches no operation of the history
\* raises OTException and leaves H_I, H_D, last_state and time_stamp as they
\* were.
C5_CausalityFailure ==
    [][(/\ call'.kind = "integrate"
        /\ CausalityNotMet(engines[call'.site], sent[call'.tx].transaction.starting_state))
       => (call'.raised = "OTException" /\ engines' = engines)]_vars

\* C5 at work: a site was handed the second transaction of another site
\* before the first, and refused it
C5_Witness ==
    /\ call.kind = "integrate"
    /\ call.raised = "OTException"
    /\ CausalityNotMet(engines[call.site], sent[call.tx].transaction.starting_state)
    /\ engines[call.site].time_stamp = 0

\* C6: the transaction integrate_remote returns is applicable locally.  If
\* no call has failed and the buffer of the site is the document of its
\* history before the call,
\* then the buffer with the returned inserts and deletes applied is the
\* document of the history after the call.
C6_ReturnedApplicable ==
    [][(/\ call'.kind = "integrate"
        /\ call'.raised = ""
        /\ AllHealthy
        /\ buffer[call'.site] # NoDocument
        /\ buffer[call'.site] = Document(engines[call'.site]))
       => buffer'[call'.site] = Document(engines'[call'.site])]_vars

\* C7: a local transaction is recorded faithfully.  If no call has failed
\* and the buffer of the site is the document of its history when the user
\* makes the transaction,
\* then the document of the history after process_transaction is the buffer
\* with the transaction applied.
C7_RecordedFaithfully ==
    [][(/\ call'.kind = "process"
        /\ AllHealthy
        /\ buffer[call'.site] = Document(engines[call'.site]))
       => Document(engines'[call'.site]) = buffer'[call'.site]]_vars

\* the local deletes as process_transaction swaps them past the outgoing
\* inserts and deletes (the second value of line 99, which the code drops)
swapped_local_deletes(self, outgoing_sequence) ==
    swap_sequence_delete_delete(
        swap_sequence_delete_insert(self.deletes, outgoing_sequence.inserts).new_sequence2,
        outgoing_sequence.deletes).new_sequence2

\* C8: the emitted transaction is free of local deletes.  No call having
\* failed, for every transaction O made on the document of the history (H_I, H_D) and emitted
\* as O': H_I, O'.inserts, O'.deletes and then the swapped local deletes
\* give the document that H_I, H_D, O.inserts, O.deletes give.
C8_FreeOfLocalDeletes ==
    \A i \in 1..Len(sent) :
        LET self == sent[i].engine
            emitted == sent[i].transaction
        IN  (AllHealthy /\ sent[i].document = Document(self))
            => ApplySequence(
                   ApplyTransaction(ApplySequence(<<>>, self.inserts), emitted),
                   swapped_local_deletes(self, sent[i].outgoing))
               = ApplyTransaction(Document(self), sent[i].outgoing)

(***************************************************************************)
(* The swap functions on their own: a document, a delete sequence that was *)
(* executed on it (sequence2) and a sequence defined on the document after *)
(* it (sequence1), all in effect order: each operation is positioned in    *)
(* the document that the operations before it in its sequence leave, at or *)
(* to the right of where the one before it took effect.  As in the tests,  *)
(* the operations of sequence2 carry states of site 2, those of sequence1  *)
(* states of site 1.                                                       *)
(***************************************************************************)
\* the document "abc..." of a given length
Text(length) == [j \in 1..length |-> j]

Stamped(sequence, site_id) ==
    [k \in 1..Len(sequence) |-> [sequence[k] EXCEPT !.state = State(site_id, k, k)]]

\* the delete sequences of at most n operations on a document of `length`
\* characters, none to the left of `position`
RECURSIVE DeleteSequences(_, _, _)
DeleteSequences(length, position, n) ==
    {<<>>} \cup
    (IF n = 0 THEN {}
     ELSE UNION {{<<DeleteOperation(pl[1], pl[2])>> \o rest :
                     rest \in DeleteSequences(length - pl[2], pl[1], n - 1)} :
                 pl \in {pl \in (position..length) \X (0..length) :
                            pl[1] + pl[2] <= length}})

\* the insert sequences of at most n operations on a document of `length`
\* characters, none to the left of `position`; tx numbers the fresh text
RECURSIVE InsertSequences(_, _, _, _)
InsertSequences(length, position, n, tx) ==
    {<<>>} \cup
    (IF n = 0 THEN {}
     ELSE UNION {{<<InsertOperation(pl[1], FreshValue(tx, pl[2]))>> \o rest :
                     rest \in InsertSequences(length + pl[2], pl[1] + pl[2], n - 1, tx + 1)} :
                 pl \in (position..length) \X ValueLens})

\* the length of the document that a delete sequence leaves
RECURSIVE LengthAfter(_, _)
LengthAfter(length, sequence) ==
    IF sequence = <<>> THEN length
    ELSE LengthAfter(length + get_increment(Head(sequence)), Tail(sequence))

SwapInit ==
    /\ engines = [s \in Sites |-> Engine(s)]
    /\ buffer = [s \in Sites |-> <<>>]
    /\ sent = <<>>
    /\ log = [s \in Sites |-> <<>>]
    /\ call = NoCall
    /\ \E length \in 0..MaxDoc :
          \E sequence2 \in DeleteSequences(length, 0, MaxSeq) :
              fn = [name |-> "input", document |-> Text(length),
                    sequence2 |-> Stamped(sequence2, 2)]

\* _swap_sequence_delete_insert(sequence2, sequence1) on an insert sequence
\* defined on the document after sequence2
SwapDeleteInsert ==
    /\ fn.name = "input"
    /\ \E inserts \in InsertSequences(LengthAfter(Len(fn.document), fn.sequence2),
                                      0, MaxSeq, 1) :
          LET sequence1 == Stamped(inserts, 1)
              swapped == swap_sequence_delete_insert(fn.sequence2, sequence1)
          IN  fn' = [name |-> "swap_sequence_delete_insert", document |-> fn.document,
                     sequence2 |-> fn.sequence2, sequence1 |-> sequence1,
                     new_sequence1 |-> swapped.new_sequence1,
                     new_sequence2 |-> swapped.new_sequence2]
    /\ UNCHANGED <<engines, buffer, sent, log, call>>

\* _swap_sequence_delete_delete(sequence2, sequence1) on a delete sequence
\* defined on the document after sequence2
SwapDeleteDelete ==
    /\ fn.name = "input"
    /\ \E deletes \in DeleteSequences(LengthAfter(Len(fn.document), fn.sequence2),
                                      0, MaxSeq) :
          LET sequence1 == Stamped(deletes, 1)
              swapped == swap_sequence_delete_delete(fn.sequence2, sequence1)
          IN  fn' = [name |-> "swap_sequence_delete_delete", document |-> fn.document,
                     sequence2 |-> fn.sequence2, sequence1 |-> sequence1,
                     new_sequence1 |-> swapped.new_sequence1,
                     new_sequence2 |-> swapped.new_sequence2]
    /\ UNCHANGED <<engines, buffer, sent, log, call>>

SwapNext == SwapDeleteInsert \/ SwapDeleteDelete

SwapSpec == SwapInit /\ [][SwapNext]_vars

\* the document after sequence2 and then sequence1
ExecutedInOrder == ApplySequence(ApplySequence(fn.document, fn.sequence2), fn.sequence1)
\* the document after the swapped sequences: sequence1' and then sequence2'
ExecutedSwapped ==
    ApplySequence(ApplySequence(fn.document, fn.new_sequence1), fn.new_sequence2)

\* C9: swap identity (delete/insert).  For an effect-ordered delete sequence
\* D and an insert sequence I defined on the document after D, with (I', D')
\* the value of _swap_sequence_delete_insert(D, I): D then I gives the
\* document that I' then D' gives.
C9_SwapDeleteInsert ==
    fn.name = "swap_sequence_delete_insert"
        => ExecutedInOrder # NoDocument /\ ExecutedSwapped = ExecutedInOrder

\* C9 at work: both sequences hold operations, and an insert to the right of
\* a delete moved
C9_Witness ==
    /\ fn.name = "swap_sequence_delete_insert"
    /\ Len(fn.sequence2) = 2
    /\ Len(fn.sequence1) = 2
    /\ fn.new_sequence1[2].position > fn.sequence1[2].position
    /\ fn.new_sequence2[2].position > fn.sequence2[2].position

\* C10: swap identity (delete/delete).  For effect-ordered delete sequences
\* first, executed on the document, and second, defined on the document
\* after first, with (second', first') the value of
\* _swap_sequence_delete_delete(first, second): first then second gives the
\* document that second' then first' gives.
C10_SwapDeleteDelete ==
    fn.name = "swap_sequence_delete_delete"
        => ExecutedInOrder # NoDocument /\ ExecutedSwapped = ExecutedInOrder

(***************************************************************************)
(* The transformers on their own: a document and two effect-ordered        *)
(* sequences defined on it, the incoming one authored by one site and the  *)
(* existing one by the other.                                              *)
(***************************************************************************)
TransformInit ==
    /\ engines = [s \in Sites |-> Engine(s)]
    /\ buffer = [s \in Sites |-> <<>>]
    /\ sent = <<>>
    /\ log = [s \in Sites |-> <<>>]
    /\ call = NoCall
    /\ \E length \in 0..MaxDoc, site_id \in Sites :
          fn = [name |-> "document", document |-> Text(length), site_id |-> site_id]

\* the other site of a session of two
Other(site_id) == CHOOSE s \in Sites : s # site_id

\* what a call of a transformer leaves in fn
Transformed(name, incoming, existing, transformed) ==
    [name |-> name, document |-> fn.document, site_id |-> fn.site_id,
     incoming |-> incoming, existing |-> existing, transformed |-> transformed]

\* _transform_delete_delete(incoming, existing) on two delete sequences
TransformDeleteDelete ==
    /\ fn.name = "document"
    /\ \E A, B \in DeleteSequences(Len(fn.document), 0, MaxSeq) :
          LET incoming == Stamped(A, fn.site_id)
              existing == Stamped(B, Other(fn.site_id))
          IN  fn' = Transformed("transform_delete_delete", incoming, existing,
                                transform_delete_delete(incoming, existing))
    /\ UNCHANGED <<engines, buffer, sent, log, call>>

\* _transform_insert_insert(incoming, existing) on two insert sequences
TransformInsertInsert ==
    /\ fn.name = "document"
    /\ \E A \in InsertSequences(Len(fn.document), 0, MaxSeq, 1) :
          \E B \in InsertSequences(Len(fn.document), 0, MaxSeq, MaxSeq + 1) :
              LET incoming == Stamped(A, fn.site_id)
                  existing == Stamped(B, Other(fn.site_id))
              IN  fn' = Transformed("transform_insert_insert", incoming, existing,
                                    transform_insert_insert(incoming, existing))
    /\ UNCHANGED <<engines, buffer, sent, log, call>>

\* _transform_delete_insert(incoming, existing) on a delete sequence and an
\* insert sequence
TransformDeleteInsert ==
    /\ fn.name = "document"
    /\ \E D \in DeleteSequences(Len(fn.document), 0, MaxSeq) :
          \E I \in InsertSequences(Len(fn.document), 0, MaxSeq, 1) :
              LET incoming == Stamped(D, fn.site_id)
                  existing == Stamped(I, Other(fn.site_id))
              IN  fn' = Transformed("transform_delete_insert", incoming, existing,
                                    transform_delete_insert(incoming, existing))
    /\ UNCHANGED <<engines, buffer, sent, log, call>>

\* _transform_insert_delete(incoming, existing) on an insert sequence and a
\* delete sequence
TransformInsertDelete ==
    /\ fn.name = "document"
    /\ \E I \in InsertSequences(Len(fn.document), 0, MaxSeq, 1) :
          \E D \in DeleteSequences(Len(fn.document), 0, MaxSeq) :
              LET incoming == Stamped(I, fn.site_id)
                  existing == Stamped(D, Other(fn.site_id))
              IN  fn' = Transformed("transform_insert_delete", incoming, existing,
                                    transform_insert_delete(incoming, existing))
    /\ UNCHANGED <<engines, buffer, sent, log, call>>

TransformNext ==
    \/ TransformInsertInsert
    \/ TransformDeleteInsert
    \/ TransformInsertDelete
    \/ TransformDeleteDelete

TransformSpec == TransformInit /\ [][TransformNext]_vars

\* the characters of `document` that are not in `removed`
Without(document, removed) == SelectSeq(document, LAMBDA c : c \notin removed)
\* the characters of `document` that `sequence` removes
RemovedBy(document, sequence) ==
    {document[k] : k \in 1..Len(document)}
        \ {ApplySequence(document, sequence)[k] :
              k \in 1..Len(ApplySequence(document, sequence))}

\* C11: delete/delete transformation law.  For delete sequences A
\* (incoming) and B (existing) on one document, B and then
\* _transform_delete_delete(A, B) leaves the document without the characters
\* that A or B removes, which is also what A and then
\* _transform_delete_delete(B, A) leaves.
C11_DeleteDeleteLaw ==
    fn.name = "transform_delete_delete" =>
        LET reverse == transform_delete_delete(fn.existing, fn.incoming)
        IN  (fn.transformed.raised = "" /\ reverse.raised = "") =>
            /\ ApplySequence(ApplySequence(fn.document, fn.existing), fn.transformed.value)
                   = Without(fn.document, RemovedBy(fn.document, fn.incoming)
                                              \cup RemovedBy(fn.document, fn.existing))
            /\ ApplySequence(ApplySequence(fn.document, fn.incoming), reverse.value)
                   = ApplySequence(ApplySequence(fn.document, fn.existing),
                                   fn.transformed.value)

\* C12: insert/insert inclusive transformation.  For effect-ordered insert
\* sequences A (incoming) and B (existing) on one document, authored by
\* different sites, B and then _transform_insert_insert(A, B) gives the
\* document that A and then _transform_insert_insert(B, A) gives.
C12_InsertInsertLaw ==
    fn.name = "transform_insert_insert" =>
        LET reverse == transform_insert_insert(fn.existing, fn.incoming)
        IN  /\ fn.transformed.raised = ""
            /\ reverse.raised = ""
            /\ ApplySequence(ApplySequence(fn.document, fn.existing), fn.transformed.value)
                   # NoDocument
            /\ ApplySequence(ApplySequence(fn.document, fn.existing), fn.transformed.value)
                   = ApplySequence(ApplySequence(fn.document, fn.incoming), reverse.value)

\* two non-empty insert sequences that meet at one position were transformed
C12_Witness ==
    /\ fn.name = "transform_insert_insert"
    /\ \E i \in 1..Len(fn.incoming), e \in 1..Len(fn.existing) :
          /\ fn.incoming[i].position = fn.existing[e].position
          /\ fn.transformed.value[i].position > fn.incoming[i].position
    /\ \E i \in 1..Len(fn.incoming) :
          fn.transformed.value[i].position = fn.incoming[i].position

\* C13: delete/insert inclusive transformation.  For an effect-ordered
\* delete sequence D (incoming) and insert sequence I (existing) on one
\* document, I and then _transform_delete_insert(D, I) leaves the document
\* of I without the characters that D removes: all the text of I stays,
\* also when an insert falls inside the range of a delete.
C13_DeleteInsertLaw ==
    fn.name = "transform_delete_insert" =>
        /\ fn.transformed.raised = ""
        /\ ApplySequence(ApplySequence(fn.document, fn.existing), fn.transformed.value)
               = Without(ApplySequence(fn.document, fn.existing),
                         RemovedBy(fn.document, fn.incoming))

\* the number of characters that the first n operations of a sequence add
RECURSIVE Increment(_, _)
Increment(sequence, n) ==
    IF n = 0 THEN 0 ELSE Increment(sequence, n - 1) + get_increment(sequence[n])

\* the position of operation n of a sequence in the document the sequence
\* starts from (existing_pos and incoming_pos of the transformers)
Adjusted(sequence, n) == sequence[n].position - Increment(sequence, n - 1)

\* incoming insert i falls strictly inside the range of existing delete e
StrictlyInside(incoming, i, existing, e) ==
    /\ Adjusted(existing, e) < Adjusted(incoming, i)
    /\ Adjusted(incoming, i) < Adjusted(existing, e) + existing[e].length

\* C14: an insert into deleted text lands at the edit point.  In
\* _transform_insert_delete(I, D) an incoming insert whose adjusted position
\* is strictly inside the range of an existing delete is emitted where that
\* delete took effect in the document after D, shifted by the incoming
\* inserts before it; the last existing delete is no exception.
C14_InsertIntoDeleted ==
    fn.name = "transform_insert_delete" =>
        /\ fn.transformed.raised = ""
        /\ \A i \in 1..Len(fn.incoming), e \in 1..Len(fn.existing) :
              StrictlyInside(fn.incoming, i, fn.existing, e) =>
                  fn.transformed.value[i].position
                      = fn.existing[e].position + Increment(fn.incoming, i - 1)

\* the first n operations of a sequence
Prefix(sequence, n) == SubSeq(sequence, 1, n)

\* every character that incoming delete i removes is removed by `existing`
\* as well; a zero-length delete removes none
Covered(document, incoming, i, existing) ==
    RemovedBy(ApplySequence(document, Prefix(incoming, i - 1)), <<incoming[i]>>)
        \subseteq RemovedBy(document, existing)

\* C16: zero-length deletes are never dropped.  _transform_delete_delete
\* emits at least one delete for every incoming delete; an incoming delete
\* whose characters the existing deletes all remove, a zero-length one
\* included, is emitted with length 0.
C16_ZeroLengthKept ==
    fn.name = "transform_delete_delete" =>
        LET output == fn.transformed.value
        IN  fn.transformed.raised = "" =>
            /\ Len(output) >= Len(fn.incoming)
            /\ Len(output) = Len(fn.incoming) =>
                  \A i \in 1..Len(fn.incoming) :
                      Covered(fn.document, fn.incoming, i, fn.existing)
                          => output[i].length = 0
            /\ (\A i \in 1..Len(fn.incoming) :
                    Covered(fn.document, fn.incoming, i, fn.existing))
                  => \A k \in 1..Len(output) : output[k].length = 0

\* operation k of `sequence` has the site_id and remote_time of starting_state
Matches(sequence, k, starting_state) ==
    /\ sequence[k].state.site_id = starting_state.site_id
    /\ sequence[k].state.remote_time = starting_state.remote_time

\* the local times L that the claim allows: that of the first matching
\* operation of H_I, or else of H_D
Reference(self, starting_state) ==
    LET First(sequence) ==
            {sequence[k].state.local_time :
                k \in {k \in 1..Len(sequence) :
                          /\ Matches(sequence, k, starting_state)
                          /\ \A j \in 1..(k - 1) : ~Matches(sequence, j, starting_state)}}
    IN  IF First(self.inserts) # {} THEN First(self.inserts) ELSE First(self.deletes)

\* C17: concurrency discovery.  When integrate_remote scans H_I for a
\* transaction whose starting_state is not null and matches an operation of
\* the history, _get_concurrent returns, in the scanned order, exactly the
\* operations whose local_time is greater than L, the local_time of the first
\* matching operation of H_I or else of H_D; for a null starting_state it
\* returns the whole scanned sequence.
C17_ConcurrentSince ==
    [][call'.kind = "integrate" =>
          LET self == engines[call'.site]
              starting_state == sent[call'.tx].transaction.starting_state
              result == get_concurrent(self, starting_state, self.inserts)
              indices == result.value
          IN  IF starting_state = None THEN
                  /\ result.raised = ""
                  /\ Pick(self.inserts, indices) = self.inserts
              ELSE
                  \A L \in Reference(self, starting_state) :
                      /\ result.raised = ""
                      /\ \A a, b \in 1..Len(indices) : a < b => indices[a] < indices[b]
                      /\ {indices[a] : a \in 1..Len(indices)}
                             = {k \in 1..Len(self.inserts) :
                                   self.inserts[k].state.local_time > L}]_vars

\* C17 at work: a transaction with a starting state was integrated by a site
\* whose H_I holds an insert of its own made after that state and an insert
\* made before it or matching it
C17_Witness ==
    /\ call.kind = "integrate"
    /\ call.raised = ""
    /\ sent[call.tx].transaction.starting_state # None
    /\ LET self == engines[call.site]
       IN  \E L \in Reference(self, sent[call.tx].transaction.starting_state) :
               /\ \E k \in 1..Len(self.inserts) :
                      /\ self.inserts[k].state.site_id = call.site
                      /\ self.inserts[k].state.local_time > L
               /\ \E k \in 1..Len(self.inserts) :
                      self.inserts[k].state.local_time <= L

\* character c stands before character d in the document
Precedes(document, c, d) ==
    \E k, l \in 1..Len(document) : k < l /\ document[k] = c /\ document[l] = d

\* transactions i and j each insert text, at the same position
SamePosition(i, j) ==
    /\ sent[i].outgoing.inserts # <<>>
    /\ sent[j].outgoing.inserts # <<>>
    /\ sent[i].outgoing.inserts[1].position = sent[j].outgoing.inserts[1].position

\* the first character of the text that transaction i inserts
Inserted(i) == sent[i].outgoing.inserts[1].value[1]

\* C15: tie-break determinism.  Sites a < b made transactions i and j on a
\* common state, each inserting text at the same position; once a has
\* integrated j and b has integrated i, the text of a stands before the text
\* of b in the buffer of both sites.
C15_TieBreak ==
    \A i, j \in 1..Len(sent) :
        LET a == sent[i].author
            b == sent[j].author
        IN  (a < b /\ CommonState(i, j) /\ SamePosition(i, j) /\ AllHealthy
                /\ ProcessedThenIntegrated(a, i, j) /\ ProcessedThenIntegrated(b, j, i))
            => \A s \in {a, b} :
                  (/\ \E k \in 1..Len(buffer[s]) : buffer[s][k] = Inserted(i)
                   /\ \E k \in 1..Len(buffer[s]) : buffer[s][k] = Inserted(j))
                  => Precedes(buffer[s], Inserted(i), Inserted(j))

\* the operations of `sequence` stamped after the clock showed time_stamp, in
\* the order of the sequence
AddedSince(sequence, time_stamp) ==
    SelectSeq(sequence, LAMBDA op : op.state.local_time > time_stamp)

\* C18: last_state tracking.  A call of process_transaction or
\* integrate_remote that adds operations to the history leaves last_state
\* equal to the state of the last delete it merged into H_D if it merged
\* one, otherwise to the state of the last insert it merged into H_I; a call
\* that adds no operation leaves last_state as it was.
C18_LastState ==
    [][call'.kind \in {"process", "integrate"} =>
          LET before == engines[call'.site]
              self == engines'[call'.site]
              inserts == AddedSince(self.inserts, before.time_stamp)
              deletes == AddedSince(self.deletes, before.time_stamp)
          IN  self.last_state =
                  IF deletes # <<>> THEN deletes[Len(deletes)].state
                  ELSE IF inserts # <<>> THEN inserts[Len(inserts)].state
                  ELSE before.last_state]_vars

\* C18 at work: a site integrated a transaction that holds an insert and a
\* delete, and last_state is the state of the delete of the other site that
\* stands last in H_D, stamped with the newest local time
C18_Witness ==
    /\ call.kind = "integrate"
    /\ call.raised = ""
    /\ sent[call.tx].transaction.inserts # <<>>
    /\ sent[call.tx].transaction.deletes # <<>>
    /\ LET self == engines[call.site]
       IN  /\ self.deletes # <<>>
           /\ self.last_state = self.deletes[Len(self.deletes)].state
           /\ self.last_state.site_id # call.site
           /\ self.last_state.local_time = self.time_stamp

\* C19: causal cut of an emitted transaction.  The transaction that
\* process_transaction returns starts from the last_state the engine had
\* just before the call, null on an empty engine; the transaction that
\* integrate_remote(T) returns starts from T.starting_state.
C19_CausalCut ==
    [][/\ call'.kind = "process" =>
              LET self == engines[call'.site]
                  returned == sent'[call'.tx].transaction
              IN  /\ returned.starting_state = self.last_state
                  /\ (self.inserts = <<>> /\ self.deletes = <<>>)
                         => returned.starting_state = None
       /\ (call'.kind = "integrate" /\ call'.raised = "") =>
              LET T == sent[call'.tx].transaction
                  returned == integrate_remote(engines[call'.site], T).value
              IN  returned.starting_state = T.starting_state]_vars

\* C19 at work: a site that had integrated a transaction of the other site
\* emitted one that starts from the state of that transaction, and the other
\* site integrated it in turn
C19_Witness ==
    /\ call.kind = "integrate"
    /\ call.raised = ""
    /\ LET T == sent[call.tx]
       IN  /\ T.transaction.starting_state = T.engine.last_state
           /\ T.transaction.starting_state # None
           /\ T.transaction.starting_state.site_id = call.site

\* the (site_id, remote_time) pairs of the operations of a sequence
Origins(sequence) ==
    {<<sequence[k].state.site_id, sequence[k].state.remote_time>> : k \in 1..Len(sequence)}

\* C20: origin is preserved on integration.  Every operation that a call of
\* integrate_remote adds to H_I carries the site_id and remote_time of an
\* insert of the remote transaction, and every operation it adds to H_D
\* those of a delete of the remote transaction, pieces of a split delete
\* included; only local_time is new.
C20_OriginPreserved ==
    [][(call'.kind = "integrate" /\ call'.raised = "") =>
          LET before == engines[call'.site]
              self == engines'[call'.site]
              T == sent[call'.tx].transaction
          IN  /\ Origins(AddedSince(self.inserts, before.time_stamp)) \subseteq Origins(T.inserts)
              /\ Origins(AddedSince(self.deletes, before.time_stamp)) \subseteq Origins(T.deletes)]_vars

\* C21: emitted operations have well-defined states.  Every insert and
\* delete of the transaction that process_transaction returns has a state,
\* and its site_id and remote_time are those of an operation of the author's
\* history after the call; the pieces of an outgoing delete split around a
\* local delete are no exception.
C21_EmittedStates ==
    [][call'.kind = "process" =>
          LET self == engines'[call'.site]
              returned == sent'[call'.tx].transaction
              emitted == returned.inserts \o returned.deletes
          IN  /\ \A k \in 1..Len(emitted) : emitted[k].state # None
              /\ Origins(emitted) \subseteq Origins(History(self))]_vars

(***************************************************************************)
(* The objects on their own: the constructor of Engine and the equality of *)
(* operations.                                                             *)
(***************************************************************************)
\* Engine.__init__.  Line 29 sets self._inserts to None and line 31
\* dereferences it, so the statements after line 31 are reached only if
\* self._inserts holds a node; an engine that raised has the attributes
\* assigned up to line 29.
Engine__init__(site_id) ==
    LET inserts == <<>>
    IN  IF inserts = <<>> THEN
            Outcome("AttributeError",
                    [site_id |-> site_id, last_state |-> None, inserts |-> inserts], <<>>)
        ELSE
            Outcome("",
                    [site_id |-> site_id, last_state |-> None,
                     inserts |-> [inserts EXCEPT ![1].state = None],
                     deletes |-> <<>>, time_stamp |-> 0], <<>>)

\* InsertOperation.__repr__ and DeleteOperation.__repr__: the text names the
\* position and the value or the length
Repr(op) ==
    IF IsInsert(op) THEN <<"position", op.position, "value", op.value>>
    ELSE <<"position", op.position, "length", op.length>>

\* Operation.__eq__
Eq(self, other) == Repr(self) = Repr(other)

\* the states an operation can carry
States == {None} \cup {State(s, l, r) : s \in Sites, l \in 1..MaxSeq, r \in 1..MaxSeq}

\* the operations compared
Operations ==
    {[InsertOperation(p, FreshValue(1, l)) EXCEPT !.state = st] :
        p \in 0..MaxSeq, l \in ValueLens, st \in States}
    \cup {[DeleteOperation(p, l) EXCEPT !.state = st] :
             p \in 0..MaxSeq, l \in 0..MaxSeq, st \in States}

ObjectInit ==
    /\ engines = [s \in Sites |-> Engine(s)]
    /\ buffer = [s \in Sites |-> <<>>]
    /\ sent = <<>>
    /\ log = [s \in Sites |-> <<>>]
    /\ call = NoCall
    /\ fn = [name |-> "start"]

\* Engine(site_id)
Construct ==
    /\ fn.name = "start"
    /\ \E site_id \in Sites :
          fn' = [name |-> "Engine", site_id |-> site_id,
                 outcome |-> Engine__init__(site_id)]
    /\ UNCHANGED <<engines, buffer, sent, log, call>>

\* self == other on two operations
Equal ==
    /\ fn.name = "start"
    /\ \E self \in Operations, other \in Operations :
          fn' = [name |-> "__eq__", self |-> self, other |-> other,
                 value |-> Eq(self, other)]
    /\ UNCHANGED <<engines, buffer, sent, log, call>>

ObjectNext == Construct \/ Equal

ObjectSpec == ObjectInit /\ [][ObjectNext]_vars

\* C22: empty engine.  Engine(site_id) returns, and the engine it yields has
\* an empty H_I, an empty H_D, a null last_state and time_stamp 0.
C22_EmptyEngine ==
    fn.name = "Engine" =>
        /\ fn.outcome.raised = ""
        /\ fn.outcome.engine.inserts = <<>>
        /\ fn.outcome.engine.deletes = <<>>
        /\ fn.outcome.engine.last_state = None
        /\ fn.outcome.engine.time_stamp = 0

\* C25: operation equality is structural and includes the state.  Two
\* operations compare equal exactly when kind, position, value or length,
\* and state are the same; operations that differ only in state are not
\* equal.
C25_EqualityWithState ==
    fn.name = "__eq__" => (fn.value <=> fn.self = fn.other)

(***************************************************************************)
(* The two calls of the engine on input that was not validated: an engine  *)
(* that is empty or has processed one transaction, and a transaction of    *)
(* inserts or of deletes that need not be well formed.                     *)
(***************************************************************************)
\* the sequences of at most two of the operations `ops`
UpToTwo(ops) == {<<>>} \cup {<<a>> : a \in ops} \cup {<<a, b>> : a \in ops, b \in ops}

\* inserts and deletes as a caller or a peer can hand them over: with or
\* without a state, in any order, deletes of any length from -1
InputInserts(site_id) ==
    UpToTwo({[InsertOperation(p, FreshValue(MaxTx, 1)) EXCEPT !.state = st] :
                p \in 0..MaxSeq, st \in {None, State(site_id, 1, 1)}})

InputDeletes(site_id) ==
    UpToTwo({[DeleteOperation(p, l) EXCEPT !.state = st] :
                p \in 0..(MaxSeq - 1), l \in -1..1, st \in {None, State(site_id, 1, 1)}})

InputTransactions(site_id) ==
    {TransactionSequence(None, inserts, <<>>) : inserts \in InputInserts(site_id)}
    \cup {TransactionSequence(None, <<>>, deletes) : deletes \in InputDeletes(site_id)}

\* the engines called: fresh, or after one transaction of the site's user
InputEngines ==
    {Engine(s) : s \in Sites}
    \cup {process_transaction(Engine(s), t).engine :
             s \in Sites, t \in LocalTransactions(<<>>, 1)}

InputInit ==
    /\ engines = [s \in Sites |-> Engine(s)]
    /\ buffer = [s \in Sites |-> <<>>]
    /\ sent = <<>>
    /\ log = [s \in Sites |-> <<>>]
    /\ call = NoCall
    /\ \E self \in InputEngines : fn = [name |-> "engine", self |-> self]

\* process_transaction on a transaction of the site's user
ProcessInput ==
    /\ fn.name = "engine"
    /\ \E transaction \in InputTransactions(fn.self.site_id) :
          fn' = [name |-> "process_transaction", self |-> fn.self,
                 transaction |-> transaction,
                 outcome |-> process_transaction(fn.self, transaction)]
    /\ UNCHANGED <<engines, buffer, sent, log, call>>

\* integrate_remote on a transaction of the other site
IntegrateInput ==
    /\ fn.name = "engine"
    /\ \E transaction \in InputTransactions(Other(fn.self.site_id)) :
          fn' = [name |-> "integrate_remote", self |-> fn.self,
                 transaction |-> transaction,
                 outcome |-> integrate_remote(fn.self, transaction)]
    /\ UNCHANGED <<engines, buffer, sent, log, call>>

InputNext == ProcessInput \/ IntegrateInput

InputSpec == InputInit /\ [][InputNext]_vars

\* a delete of negative length
NegativeLength(transaction) ==
    \E k \in 1..Len(transaction.deletes) : transaction.deletes[k].length < 0

\* an operation without a state
NullState(transaction) ==
    \E k \in 1..Len(transaction.inserts \o transaction.deletes) :
        (transaction.inserts \o transaction.deletes)[k].state = None

\* an operation to the left of the operation before it in its sequence
NotInEffectOrder(transaction) ==
    \/ \E k \in 1..(Len(transaction.inserts) - 1) :
           transaction.inserts[k + 1].position < transaction.inserts[k].position
    \/ \E k \in 1..(Len(transaction.deletes) - 1) :
           transaction.deletes[k + 1].position < transaction.deletes[k].position

\* C23: structural validation.  process_transaction and integrate_remote
\* fail with InvariantViolation on a transaction that holds a delete of
\* negative length or a sequence that is not in effect order, and
\* integrate_remote also on a remote operation without a state.
C23_StructuralValidation ==
    /\ (/\ fn.name = "process_transaction"
        /\ (NegativeLength(fn.transaction) \/ NotInEffectOrder(fn.transaction)))
           => fn.outcome.raised = "InvariantViolation"
    /\ (/\ fn.name = "integrate_remote"
        /\ (\/ NegativeLength(fn.transaction)
            \/ NotInEffectOrder(fn.transaction)
            \/ NullState(fn.transaction)))
           => fn.outcome.raised = "InvariantViolation"

\* C24: failure atomicity.  A call of integrate_remote or
\* process_transaction that raises, at whatever step, leaves H_I, H_D,
\* last_state and time_stamp as they were before the call.
C24_FailureAtomicity ==
    [][(call'.kind \in {"process", "integrate"} /\ call'.raised # "")
          => engines'[call'.site] = engines[call'.site]]_vars


(***************************************************************************)
(* The linked lists as objects.  A memory holds the OperationNode objects  *)
(* (a reference to the operation in `value`, a reference to the following  *)
(* node in `next`) and the operation objects; a reference is an index, and *)
(* Nil is the reference None.  The transformers and swaps are translated   *)
(* again over a memory, write by write, so that which object each          *)
(* assignment lands on is part of the model.  A frame `f` holds the memory *)
(* and the local variables of the call.                                    *)
(***************************************************************************)
Nil == 0

NoMemory == [nodes |-> <<>>, values |-> <<>>]

\* the operation that a node refers to
Value(memory, node) == memory.values[memory.nodes[node].value]

\* OperationNode(value), for an operation object created with it
OperationNode(memory, value) ==
    LET values == Append(memory.values, value)
        nodes == Append(memory.nodes, [value |-> Len(values), next |-> Nil])
    IN  [memory |-> [nodes |-> nodes, values |-> values], node |-> Len(nodes)]

\* a copy that shares the operation object with the node copied
copy_sharing_value(memory, node) ==
    LET nodes == Append(memory.nodes, memory.nodes[node])
    IN  [memory |-> [memory EXCEPT !.nodes = nodes], node |-> Len(nodes)]

\* OperationNode.__copy__: a new node on a deep copy of the operation, with
\* the next reference of the node copied
copy(memory, node) ==
    LET values == Append(memory.values, Value(memory, node))
        nodes == Append(memory.nodes,
                        [value |-> Len(values), next |-> memory.nodes[node].next])
    IN  [memory |-> [nodes |-> nodes, values |-> values], node |-> Len(nodes)]

\* node.next = next
SetNext(memory, node, next) == [memory EXCEPT !.nodes[node].next = next]

\* node.value.<field> = v
SetField(memory, node, field, v) ==
    [memory EXCEPT !.values[memory.nodes[node].value][field] = v]

\* the linked list of a sequence of operations, built in memory
RECURSIVE LinkedList(_, _)
LinkedList(memory, sequence) ==
    IF sequence = <<>> THEN [memory |-> memory, node |-> Nil]
    ELSE LET rest == LinkedList(memory, Tail(sequence))
             head == OperationNode(rest.memory, Head(sequence))
         IN  [memory |-> SetNext(head.memory, head.node, rest.node), node |-> head.node]

\* OperationNode.to_list
RECURSIVE to_list(_, _)
to_list(memory, node) ==
    IF node = Nil THEN <<>>
    ELSE <<Value(memory, node)>> \o to_list(memory, memory.nodes[node].next)

\* the nodes of a linked list, in order
RECURSIVE NodesOf(_, _)
NodesOf(memory, node) ==
    IF node = Nil THEN <<>>
    ELSE <<node>> \o NodesOf(memory, memory.nodes[node].next)

\* sequencing: `value` is computed once and handed to In
Let(value, In(_)) == CHOOSE r \in {In(v) : v \in {value}} : TRUE

\* the idiom that appends a copy of `node` to the list built so far:
\*     if tail: tail.next = copy(node); tail = tail.next
\*     else:    tail = copy(node); head = tail
Emit(f, tail, head, node) ==
    LET copied == copy(f.memory, node)
    IN  IF f[tail] # Nil
        THEN [f EXCEPT !.memory = SetNext(copied.memory, f[tail], copied.node),
                       ![tail] = copied.node]
        ELSE [f EXCEPT !.memory = copied.memory, ![tail] = copied.node,
                       ![head] = copied.node]

\* the local variables of a transformer at its first line
TransformFrame(memory, incoming_sequence, existing_sequence) ==
    [memory |-> memory, raised |-> "",
     incoming_value_size |-> 0, existing_value_size |-> 0, existing_end_point |-> 0,
     double_count_amount |-> 0, bound |-> FALSE, incoming_pos |-> 0,
     transformed_sequence |-> Nil, transformed_head |-> Nil,
     incoming_node |-> incoming_sequence, existing_node |-> existing_sequence]

\* Engine._transform_insert_insert, on objects
\* one pass of the loops
TransformInsertInsertStep(f) ==
    IF f.incoming_node = Nil THEN f
    ELSE IF f.existing_node = Nil THEN
        \* lines 231-239
        LET g == Emit(f, "transformed_sequence", "transformed_head", f.incoming_node)
            position == Value(g.memory, g.transformed_sequence).position
                            + g.existing_value_size
            memory == SetField(g.memory, g.transformed_sequence, "position", position)
        IN  (
                [g EXCEPT !.memory = memory,
                          !.incoming_node = memory.nodes[f.incoming_node].next])
    ELSE
        LET existing == Value(f.memory, f.existing_node)
            incoming == Value(f.memory, f.incoming_node)
            existing_pos == existing.position - f.existing_value_size
            incoming_pos == incoming.position - f.incoming_value_size
            advanced == [f EXCEPT
                           !.existing_value_size = @ + get_increment(existing),
                           !.existing_node = f.memory.nodes[f.existing_node].next]
        IN  IF existing_pos < incoming_pos THEN (advanced)
            ELSE IF existing_pos = incoming_pos /\ TieRaises(existing, incoming) THEN
                [f EXCEPT !.raised = "AttributeError"]
            ELSE IF existing_pos = incoming_pos /\ ExistingWinsTie(existing, incoming) THEN
                (advanced)
            ELSE
                \* lines 220-228
                LET g == Emit(f, "transformed_sequence", "transformed_head",
                              f.incoming_node)
                    position == Value(g.memory, g.transformed_sequence).position
                                    + g.existing_value_size
                    memory == SetField(g.memory, g.transformed_sequence, "position",
                                       position)
                IN  (
                        [g EXCEPT
                           !.memory = memory,
                           !.incoming_value_size =
                               @ + get_increment(Value(memory, f.incoming_node)),
                           !.incoming_node = memory.nodes[f.incoming_node].next])

\* the passes in turn, each on the frame the pass before left
RECURSIVE TransformInsertInsertRun(_)
TransformInsertInsertRun(f) ==
    IF f.incoming_node = Nil \/ f.raised # "" THEN f
    ELSE Let(TransformInsertInsertStep(f), TransformInsertInsertRun)

\* node.value.<field> += n
AddField(memory, node, field, n) ==
    SetField(memory, node, field, Value(memory, node)[field] + n)

\* Engine._transform_delete_insert, on objects
\* one pass of the loops
TransformDeleteInsertStep(f) ==
    IF f.incoming_node = Nil THEN f
    ELSE IF f.existing_node = Nil THEN
        \* lines 289-297
        LET g == Emit(f, "transformed_sequence", "transformed_head", f.incoming_node)
            memory == AddField(g.memory, g.transformed_sequence, "position",
                               g.existing_value_size)
        IN  (
                [g EXCEPT !.memory = memory,
                          !.incoming_node = memory.nodes[f.incoming_node].next])
    ELSE
        LET existing == Value(f.memory, f.existing_node)
            incoming == Value(f.memory, f.incoming_node)
            existing_pos == existing.position - f.existing_value_size
            incoming_pos == incoming.position - f.incoming_value_size
            advanced == [f EXCEPT
                           !.existing_value_size = @ + get_increment(existing),
                           !.existing_node = f.memory.nodes[f.existing_node].next]
        IN  IF existing_pos < incoming_pos THEN (advanced)
            ELSE IF existing_pos = incoming_pos /\ TieRaises(existing, incoming) THEN
                [f EXCEPT !.raised = "AttributeError"]
            ELSE IF existing_pos = incoming_pos /\ ExistingWinsTie(existing, incoming) THEN
                (advanced)
            ELSE
                \* lines 278-286
                LET g == Emit(f, "transformed_sequence", "transformed_head",
                              f.incoming_node)
                    memory == AddField(g.memory, g.transformed_sequence, "position",
                                       g.existing_value_size)
                IN  (
                        [g EXCEPT
                           !.memory = memory,
                           !.incoming_value_size =
                               @ + get_increment(Value(memory, f.incoming_node)),
                           !.incoming_node = memory.nodes[f.incoming_node].next])

\* the passes in turn, each on the frame the pass before left
RECURSIVE TransformDeleteInsertRun(_)
TransformDeleteInsertRun(f) ==
    IF f.incoming_node = Nil \/ f.raised # "" THEN f
    ELSE Let(TransformDeleteInsertStep(f), TransformDeleteInsertRun)

\* Engine._transform_insert_delete, on objects
\* one pass of the loops
TransformInsertDeleteStep(f) ==
    IF f.incoming_node = Nil THEN f
    ELSE IF f.existing_node = Nil THEN
        \* lines 353-361
        LET g == Emit(f, "transformed_sequence", "transformed_head", f.incoming_node)
            memory == AddField(g.memory, g.transformed_sequence, "position",
                               g.existing_value_size)
        IN  (
                [g EXCEPT !.memory = memory,
                          !.incoming_node = memory.nodes[f.incoming_node].next])
    ELSE
        LET existing == Value(f.memory, f.existing_node)
            incoming == Value(f.memory, f.incoming_node)
            existing_pos == existing.position - f.existing_value_size
            incoming_pos == incoming.position - f.incoming_value_size
            advanced == [f EXCEPT
                           !.existing_value_size = @ + get_increment(existing),
                           !.existing_end_point = existing_pos + existing.length,
                           !.existing_node = f.memory.nodes[f.existing_node].next]
        IN  IF existing_pos < incoming_pos THEN (advanced)
            ELSE IF existing_pos = incoming_pos /\ TieRaises(existing, incoming) THEN
                [f EXCEPT !.raised = "AttributeError"]
            ELSE IF existing_pos = incoming_pos /\ ExistingWinsTie(existing, incoming) THEN
                (advanced)
            ELSE
                \* lines 339-350
                LET g == Emit(f, "transformed_sequence", "transformed_head",
                              f.incoming_node)
                    snapped == IF incoming_pos < g.existing_end_point
                               THEN SetField(g.memory, g.transformed_sequence, "position",
                                             g.existing_end_point + g.incoming_value_size)
                               ELSE g.memory
                    memory == AddField(snapped, g.transformed_sequence, "position",
                                       g.existing_value_size)
                IN  (
                        [g EXCEPT
                           !.memory = memory,
                           !.incoming_value_size =
                               @ + get_increment(Value(memory, f.incoming_node)),
                           !.incoming_node = memory.nodes[f.incoming_node].next])

\* the passes in turn, each on the frame the pass before left
RECURSIVE TransformInsertDeleteRun(_)
TransformInsertDeleteRun(f) ==
    IF f.incoming_node = Nil \/ f.raised # "" THEN f
    ELSE Let(TransformInsertDeleteStep(f), TransformInsertDeleteRun)

\* Engine._transform_delete_delete, on objects
\* one pass of the loops
TransformDeleteDeleteStep(f) ==
    IF f.incoming_node = Nil THEN f
    ELSE IF f.existing_node = Nil THEN
        \* lines 453-472
        Let(Emit(f, "transformed_sequence", "transformed_head", f.incoming_node),
            LAMBDA g :
        IF ~g.bound THEN [g EXCEPT !.raised = "UnboundLocalError"]
        ELSE
        Let(IF g.existing_end_point > g.incoming_pos
            THEN SetField(g.memory, g.transformed_sequence, "position",
                          g.existing_end_point - g.incoming_value_size)
            ELSE g.memory, LAMBDA m1 :
        Let(IF g.existing_end_point > g.incoming_pos
            THEN SetField(m1, g.transformed_sequence, "length",
                          Max(0, Value(m1, g.incoming_node).length
                                     - g.existing_end_point + g.incoming_pos))
            ELSE m1, LAMBDA m2 :
        Let(AddField(m2, g.transformed_sequence, "position",
                     -(g.existing_value_size - g.double_count_amount)), LAMBDA m3 :
        [g EXCEPT
           !.memory = m3,
           !.double_count_amount =
               @ + Value(m3, g.incoming_node).length
                 - Value(m3, g.transformed_sequence).length,
           !.incoming_value_size = @ + Value(m3, g.incoming_node).length,
           !.incoming_node = m3.nodes[g.incoming_node].next]))))
    ELSE
        LET existing == Value(f.memory, f.existing_node)
            existing_pos == existing.position + f.existing_value_size
            incoming_pos == Value(f.memory, f.incoming_node).position
                                + f.incoming_value_size
            advanced == [f EXCEPT
                           !.bound = TRUE, !.incoming_pos = incoming_pos,
                           !.existing_value_size = @ + existing.length,
                           !.existing_end_point = existing_pos + existing.length,
                           !.existing_node = f.memory.nodes[f.existing_node].next]
        IN  IF existing_pos < incoming_pos THEN advanced
            ELSE IF existing_pos = incoming_pos
                    /\ TieRaises(existing, Value(f.memory, f.incoming_node)) THEN
                [f EXCEPT !.raised = "AttributeError"]
            ELSE IF existing_pos = incoming_pos
                    /\ ExistingWinsTie(existing, Value(f.memory, f.incoming_node)) THEN
                advanced
            ELSE
                \* lines 405-411
                Let(Emit(f, "transformed_sequence", "transformed_head", f.incoming_node),
                    LAMBDA g :
                \* lines 416-423
                Let(IF g.existing_end_point > incoming_pos
                    THEN SetField(g.memory, g.transformed_sequence, "position",
                                  g.existing_end_point - g.incoming_value_size)
                    ELSE g.memory, LAMBDA m1 :
                Let(IF g.existing_end_point > incoming_pos
                    THEN SetField(m1, g.transformed_sequence, "length",
                                  Max(0, Value(m1, g.incoming_node).length
                                             - g.existing_end_point + incoming_pos))
                    ELSE m1, LAMBDA m2 :
                \* lines 425-445
                LET ts == g.transformed_sequence
                    node == g.incoming_node
                    right == incoming_pos + Value(m2, node).length > existing_pos
                    ends_inside == incoming_pos + Value(m2, node).length
                                       < existing_pos + existing.length
                    split == right /\ ~ends_inside
                                   /\ incoming_pos # existing_pos + existing.length
                IN
                Let(IF right /\ ends_inside
                    THEN SetField(m2, ts, "length", existing_pos - incoming_pos)
                    ELSE IF split
                         THEN AddField(m2, ts, "length",
                                       -(incoming_pos + Value(m2, node).length
                                             - existing_pos))
                         ELSE m2, LAMBDA m3 :
                Let(OperationNode(m3,
                        DeleteOperation(existing_pos + existing.length,
                                        Value(m3, node).length + incoming_pos
                                            - existing_pos - existing.length)),
                    LAMBDA created :
                Let(SetNext(created.memory, created.node, m3.nodes[node].next),
                    LAMBDA m4 :
                LET new_length == Value(m4, created.node).length
                    size_after_split == g.incoming_value_size - new_length
                    next_node == IF split THEN created.node ELSE m3.nodes[node].next
                    incoming_value_size == IF split THEN size_after_split
                                           ELSE g.incoming_value_size
                    double_delta == IF split THEN -new_length ELSE 0
                IN
                Let(IF split
                    THEN AddField(m4, created.node, "position",
                                  -(size_after_split + Value(m4, node).length))
                    ELSE m3, LAMBDA m6 :
                \* lines 447-450
                Let(AddField(m6, ts, "position",
                             -(g.existing_value_size - g.double_count_amount)),
                    LAMBDA m7 :
                [g EXCEPT
                   !.memory = m7, !.bound = TRUE, !.incoming_pos = incoming_pos,
                   !.double_count_amount =
                       @ + Value(m7, node).length - Value(m7, ts).length + double_delta,
                   !.incoming_value_size = incoming_value_size + Value(m7, node).length,
                   !.incoming_node = next_node]))))))))

\* the passes in turn, each on the frame the pass before left
RECURSIVE TransformDeleteDeleteRun(_)
TransformDeleteDeleteRun(f) ==
    IF f.incoming_node = Nil \/ f.raised # "" THEN f
    ELSE Let(TransformDeleteDeleteStep(f), TransformDeleteDeleteRun)

\* the local variables of a swap at its first line
SwapFrame(memory, sequence2, sequence1) ==
    [memory |-> memory, size1 |-> 0, size2 |-> 0,
     new_sequence1 |-> Nil, new_sequence2 |-> Nil, new_node1 |-> Nil, new_node2 |-> Nil,
     node1 |-> sequence1, node2 |-> sequence2]

\* Engine._swap_sequence_delete_insert, on objects (the code tests the head
\* of the new list where Emit tests its tail; both are set together)
\* one pass of the loops
SwapDeleteInsertStep(f) ==
    IF f.node1 = Nil /\ f.node2 = Nil THEN f
    ELSE IF f.node2 # Nil
            /\ (f.node1 = Nil
                \/ Value(f.memory, f.node2).position
                       <= Value(f.memory, f.node1).position - f.size1) THEN
        \* lines 558-566 and 587-596
        LET g == Emit(f, "new_node2", "new_sequence2", f.node2)
            memory == AddField(g.memory, g.new_node2, "position", g.size1)
        IN  (
                [g EXCEPT !.memory = memory,
                          !.size2 = @ - get_increment(Value(memory, g.node2)),
                          !.node2 = memory.nodes[g.node2].next])
    ELSE
        \* lines 568-576 and 577-586
        LET g == Emit(f, "new_node1", "new_sequence1", f.node1)
            memory == AddField(g.memory, g.new_node1, "position", g.size2)
        IN  (
                [g EXCEPT !.memory = memory,
                          !.size1 = @ + get_increment(Value(memory, g.node1)),
                          !.node1 = memory.nodes[g.node1].next])

\* the passes in turn, each on the frame the pass before left
RECURSIVE SwapDeleteInsertRun(_)
SwapDeleteInsertRun(f) ==
    IF f.node1 = Nil /\ f.node2 = Nil THEN f
    ELSE Let(SwapDeleteInsertStep(f), SwapDeleteInsertRun)

\* Engine._swap_sequence_delete_delete, on objects
\* one pass of the loops
SwapDeleteDeleteStep(f) ==
    IF f.node1 = Nil /\ f.node2 = Nil THEN f
    ELSE IF f.node1 = Nil THEN
        \* lines 658-667
        LET g == Emit(f, "new_node2", "new_sequence2", f.node2)
            memory == AddField(g.memory, g.new_node2, "position", g.size1)
        IN  (
                [g EXCEPT !.memory = memory,
                          !.size2 = @ - get_increment(Value(memory, g.node2)),
                          !.node2 = memory.nodes[g.node2].next])
    ELSE IF f.node2 = Nil THEN
        \* lines 648-657
        LET g == Emit(f, "new_node1", "new_sequence1", f.node1)
            memory == AddField(g.memory, g.new_node1, "position", g.size2)
        IN  (
                [g EXCEPT !.memory = memory,
                          !.size1 = @ - get_increment(Value(memory, g.node1)),
                          !.node1 = memory.nodes[g.node1].next])
    ELSE IF Value(f.memory, f.node2).position
                <= Value(f.memory, f.node1).position + f.size1 THEN
        \* lines 622-630
        LET g == Emit(f, "new_node2", "new_sequence2", f.node2)
            memory == AddField(g.memory, g.new_node2, "position", -g.size1)
        IN  (
                [g EXCEPT !.memory = memory,
                          !.size2 = @ - get_increment(Value(memory, g.node2)),
                          !.node2 = memory.nodes[g.node2].next])
    ELSE
        \* lines 632-647
        LET g == Emit(f, "new_node1", "new_sequence1", f.node1)
            split == Value(g.memory, g.node1).position + g.size1
                         + Value(g.memory, g.node1).length
                     > Value(g.memory, g.node2).position
            m1 == SetField(g.memory, g.new_node1, "length",
                           Value(g.memory, g.node2).position
                               - Value(g.memory, g.node1).position - g.size1)
            created == OperationNode(m1,
                           DeleteOperation(Value(m1, g.node1).position,
                                           Value(m1, g.node1).length
                                               - Value(m1, g.new_node1).length))
            m2 == SetNext(created.memory, created.node, m1.nodes[g.node1].next)
            m3 == IF split THEN m2 ELSE g.memory
            next_node == IF split THEN created.node ELSE g.memory.nodes[g.node1].next
            m4 == AddField(m3, g.new_node1, "position", g.size2)
        IN  (
                [g EXCEPT !.memory = m4,
                          !.size1 = @ - get_increment(Value(m4, g.new_node1)),
                          !.node1 = next_node])

\* the passes in turn, each on the frame the pass before left
RECURSIVE SwapDeleteDeleteRun(_)
SwapDeleteDeleteRun(f) ==
    IF f.node1 = Nil /\ f.node2 = Nil THEN f
    ELSE Let(SwapDeleteDeleteStep(f), SwapDeleteDeleteRun)

(***************************************************************************)
(* The transformers and swaps run on objects: the two input lists are      *)
(* built in an empty memory, the function runs, and fn keeps the memory    *)
(* before and after the call, the two references passed and the            *)
(* references returned.                                                    *)
(***************************************************************************)
MemoryInit == TransformInit

\* the memory holding the lists of two sequences, and their heads
TwoLists(first, second) ==
    LET a == LinkedList(NoMemory, first)
        b == LinkedList(a.memory, second)
    IN  [memory |-> b.memory, first |-> a.node, second |-> b.node]

\* what a call on objects leaves in fn
Called(name, lists, f, returned) ==
    [name |-> name, document |-> fn.document, site_id |-> fn.site_id,
     before |-> lists.memory, first |-> lists.first, second |-> lists.second,
     after |-> f.memory, raised |-> IF "raised" \in DOMAIN f THEN f.raised ELSE "",
     returned |-> returned]

CallTransformInsertInsert ==
    /\ fn.name = "document"
    /\ \E A \in InsertSequences(Len(fn.document), 0, MaxSeq, 1) :
          \E B \in InsertSequences(Len(fn.document), 0, MaxSeq, MaxSeq + 1) :
              LET lists == TwoLists(Stamped(A, fn.site_id), Stamped(B, Other(fn.site_id)))
                  f == TransformInsertInsertRun(
                           TransformFrame(lists.memory, lists.first, lists.second))
              IN  fn' = Called("transform_insert_insert", lists, f,
                               <<f.transformed_head>>)
    /\ UNCHANGED <<engines, buffer, sent, log, call>>

CallTransformDeleteInsert ==
    /\ fn.name = "document"
    /\ \E D \in DeleteSequences(Len(fn.document), 0, MaxSeq) :
          \E I \in InsertSequences(Len(fn.document), 0, MaxSeq, 1) :
              LET lists == TwoLists(Stamped(D, fn.site_id), Stamped(I, Other(fn.site_id)))
                  f == TransformDeleteInsertRun(
                           TransformFrame(lists.memory, lists.first, lists.second))
              IN  fn' = Called("transform_delete_insert", lists, f,
                               <<f.transformed_head>>)
    /\ UNCHANGED <<engines, buffer, sent, log, call>>

CallTransformInsertDelete ==
    /\ fn.name = "document"
    /\ \E I \in InsertSequences(Len(fn.document), 0, MaxSeq, 1) :
          \E D \in DeleteSequences(Len(fn.document), 0, MaxSeq) :
              LET lists == TwoLists(Stamped(I, fn.site_id), Stamped(D, Other(fn.site_id)))
                  f == TransformInsertDeleteRun(
                           TransformFrame(lists.memory, lists.first, lists.second))
              IN  fn' = Called("transform_insert_delete", lists, f,
                               <<f.transformed_head>>)
    /\ UNCHANGED <<engines, buffer, sent, log, call>>

CallTransformDeleteDelete ==
    /\ fn.name = "document"
    /\ \E A, B \in DeleteSequences(Len(fn.document), 0, MaxSeq) :
          LET lists == TwoLists(Stamped(A, fn.site_id), Stamped(B, Other(fn.site_id)))
              f == TransformDeleteDeleteRun(
                       TransformFrame(lists.memory, lists.first, lists.second))
          IN  fn' = Called("transform_delete_delete", lists, f, <<f.transformed_head>>)
    /\ UNCHANGED <<engines, buffer, sent, log, call>>

CallSwapDeleteInsert ==
    /\ fn.name = "document"
    /\ \E D \in DeleteSequences(Len(fn.document), 0, MaxSeq) :
          \E I \in InsertSequences(LengthAfter(Len(fn.document), D), 0, MaxSeq, 1) :
              LET lists == TwoLists(Stamped(D, 2), Stamped(I, 1))
                  f == SwapDeleteInsertRun(
                           SwapFrame(lists.memory, lists.first, lists.second))
              IN  fn' = Called("swap_sequence_delete_insert", lists, f,
                               <<f.new_sequence1, f.new_sequence2>>)
    /\ UNCHANGED <<engines, buffer, sent, log, call>>

CallSwapDeleteDelete ==
    /\ fn.name = "document"
    /\ \E D \in DeleteSequences(Len(fn.document), 0, MaxSeq) :
          \E E \in DeleteSequences(LengthAfter(Len(fn.document), D), 0, MaxSeq) :
              LET lists == TwoLists(Stamped(D, 2), Stamped(E, 1))
                  f == SwapDeleteDeleteRun(
                           SwapFrame(lists.memory, lists.first, lists.second))
              IN  fn' = Called("swap_sequence_delete_delete", lists, f,
                               <<f.new_sequence1, f.new_sequence2>>)
    /\ UNCHANGED <<engines, buffer, sent, log, call>>

MemoryNext ==
    \/ CallTransformInsertInsert
    \/ CallTransformDeleteInsert
    \/ CallTransformInsertDelete
    \/ CallTransformDeleteDelete
    \/ CallSwapDeleteInsert
    \/ CallSwapDeleteDelete

MemorySpec == MemoryInit /\ [][MemoryNext]_vars

\* a call on objects has been made
WasCalled == fn.name # "document"

\* every object that existed before the call is as it was
InputsAsBefore ==
    /\ \A n \in 1..Len(fn.before.nodes) : fn.after.nodes[n] = fn.before.nodes[n]
    /\ \A v \in 1..Len(fn.before.values) : fn.after.values[v] = fn.before.values[v]

\* the nodes and the operations of the lists returned were created by the call
ReturnedFresh ==
    \A k \in 1..Len(fn.returned) :
        LET nodes == NodesOf(fn.after, fn.returned[k])
        IN  \A j \in 1..Len(nodes) :
                /\ nodes[j] > Len(fn.before.nodes)
                /\ fn.after.nodes[nodes[j]].value > Len(fn.before.values)

\* C26: transformers are pure.  Each of the four transformers and the two
\* swaps leaves every operation of both input lists as it was (position,
\* value or length, state), and the lists' nodes and links as they were; the
\* lists returned are made of nodes and operations created by the call.
C26_TransformersPure ==
    WasCalled =>
        /\ InputsAsBefore
        /\ to_list(fn.after, fn.first) = to_list(fn.before, fn.first)
        /\ to_list(fn.after, fn.second) = to_list(fn.before, fn.second)
        /\ fn.raised = "" => ReturnedFresh

\* C26 at work: an incoming delete is split, so the list returned holds
\* operations that differ from those passed
C26_Witness ==
    /\ fn.name = "transform_delete_delete"
    /\ fn.raised = ""
    /\ Len(to_list(fn.after, fn.returned[1])) > Len(to_list(fn.before, fn.first))
    /\ \E k \in 1..Len(to_list(fn.before, fn.first)) :
          to_list(fn.after, fn.returned[1])[k] # to_list(fn.before, fn.first)[k]

(***************************************************************************)
(* Engine._merge_sequence on objects, as integrate_remote calls it: the    *)
(* first argument is a history list, the second an incoming list already   *)
(* transformed against it.                                                 *)
(***************************************************************************)
MergeFrame(memory, sequence1, sequence2, last_state) ==
    [memory |-> memory, value_size |-> 0, last_state |-> last_state,
     merged_sequence |-> Nil, merged_node |-> Nil,
     node1 |-> sequence1, node2 |-> sequence2]

\* one pass of the loops
MergeStep(f) ==
    IF f.node1 = Nil /\ f.node2 = Nil THEN f
    ELSE IF f.node2 # Nil
            /\ (f.node1 = Nil
                \/ Value(f.memory, f.node2).position - f.value_size
                       < Value(f.memory, f.node1).position) THEN
        \* lines 496-504 and 514-523
        LET g == Emit(f, "merged_node", "merged_sequence", f.node2)
        IN  ([g EXCEPT
                        !.value_size = @ + get_increment(Value(g.memory, g.node2)),
                        !.last_state = Value(g.memory, g.node2).state,
                        !.node2 = g.memory.nodes[g.node2].next])
    ELSE
        \* lines 506-513 and 524-532
        LET memory == AddField(f.memory, f.node1, "position", f.value_size)
            g == Emit([f EXCEPT !.memory = memory], "merged_node", "merged_sequence",
                      f.node1)
        IN  ([g EXCEPT !.node1 = g.memory.nodes[g.node1].next])

\* the passes in turn, each on the frame the pass before left
RECURSIVE MergeRun(_)
MergeRun(f) ==
    IF f.node1 = Nil /\ f.node2 = Nil THEN f
    ELSE Let(MergeStep(f), MergeRun)

MergeInit == TransformInit

\* the merge of line 63: local inserts and the remote inserts transformed
\* against them
CallMergeInserts ==
    /\ fn.name = "document"
    /\ \E A \in InsertSequences(Len(fn.document), 0, MaxSeq, 1) :
          \E B \in InsertSequences(Len(fn.document), 0, MaxSeq, MaxSeq + 1) :
              LET sequence1 == Stamped(A, fn.site_id)
                  transformed == transform_insert_insert(Stamped(B, Other(fn.site_id)),
                                                         sequence1)
                  lists == TwoLists(sequence1, transformed.value)
                  f == MergeRun(MergeFrame(lists.memory, lists.first, lists.second, None))
              IN  /\ transformed.raised = ""
                  /\ fn' = Called("merge_sequence", lists, f, <<f.merged_sequence>>)
    /\ UNCHANGED <<engines, buffer, sent, log, call>>

\* the merge of line 77: local deletes and the remote deletes transformed
\* against them
CallMergeDeletes ==
    /\ fn.name = "document"
    /\ \E A, B \in DeleteSequences(Len(fn.document), 0, MaxSeq) :
          LET sequence1 == Stamped(A, fn.site_id)
              transformed == transform_delete_delete(Stamped(B, Other(fn.site_id)),
                                                     sequence1)
              lists == TwoLists(sequence1, transformed.value)
              f == MergeRun(MergeFrame(lists.memory, lists.first, lists.second, None))
          IN  /\ transformed.raised = ""
              /\ fn' = Called("merge_sequence", lists, f, <<f.merged_sequence>>)
    /\ UNCHANGED <<engines, buffer, sent, log, call>>

MergeNext == CallMergeInserts \/ CallMergeDeletes

MergeSpec == MergeInit /\ [][MergeNext]_vars

\* C27: merge does not mutate its inputs.  _merge_sequence(S1, S2) returns
\* a list of nodes it created and leaves every operation of S1 and of S2, and
\* the position of each, as it was before the call.
C27_MergeLeavesInputs ==
    fn.name = "merge_sequence" =>
        /\ ReturnedFresh
        /\ to_list(fn.after, fn.first) = to_list(fn.before, fn.first)
        /\ to_list(fn.after, fn.second) = to_list(fn.before, fn.second)

(***************************************************************************)
(* The list local_concurrent_inserts of integrate_remote: as line 51       *)
(* computes it, and as line 69 reads it, after lines 54-66 have run.       *)
(* `reached` tells whether the call gets to line 69.                       *)
(***************************************************************************)
local_concurrent_inserts(self, remote_sequence) ==
    LET concurrent == get_concurrent(self, remote_sequence.starting_state, self.inserts)
        at_line_51 == Pick(self.inserts, concurrent.value)
        transformed_remote_inserts ==
            transform_insert_insert(remote_sequence.inserts, at_line_51)
        new_remote_inserts ==
            transform_insert_delete(transformed_remote_inserts.value, self.deletes)
        stamped_inserts == assign_timestamps(self, transformed_remote_inserts.value)
        merged_inserts == merge_sequence(self.inserts, stamped_inserts.sequence,
                                         self.last_state)
        transformed_local_deletes ==
            transform_delete_insert(self.deletes, stamped_inserts.sequence)
    IN  IF concurrent.raised # "" \/ transformed_remote_inserts.raised # ""
           \/ new_remote_inserts.raised # "" \/ transformed_local_deletes.raised # ""
        THEN [reached |-> FALSE, at_line_51 |-> <<>>, at_line_69 |-> <<>>]
        ELSE [reached |-> TRUE, at_line_51 |-> at_line_51,
              at_line_69 |-> Pick(merged_inserts.sequence1, concurrent.value)]

\* C28: same concurrent set for inserts and deletes.  In integrate_remote,
\* the local concurrent inserts against which the remote deletes are
\* transformed (line 69) are the operations, at the positions, that line 51
\* computed before the remote inserts were merged.
C28_SameConcurrentSet ==
    [][call'.kind = "integrate" =>
          LET C == local_concurrent_inserts(engines[call'.site],
                                            sent[call'.tx].transaction)
          IN  C.reached => C.at_line_69 = C.at_line_51]_vars

\* incoming delete i starts at or after the end of the last existing delete,
\* so that it is emitted by the loop of lines 453-472
AfterExisting(incoming, i, existing) ==
    /\ existing # <<>>
    /\ Adjusted(incoming, i) > Adjusted(existing, Len(existing))
    /\ Adjusted(incoming, i)
           >= Adjusted(existing, Len(existing)) + existing[Len(existing)].length

\* C29: drain clipping in transform_delete_delete.  An incoming delete that
\* starts at or after the end of the last existing delete is emitted with its
\* full length, and shifted left by the characters before it that the existing
\* deletes or the incoming deletes before it remove.
C29_DrainClipping ==
    (fn.name = "transform_delete_delete" /\ fn.transformed.raised = "") =>
        \A i \in 1..Len(fn.incoming) :
            AfterExisting(fn.incoming, i, fn.existing) =>
                LET output == fn.transformed.value
                    emitted == output[Len(output) - (Len(fn.incoming) - i)]
                    before == RemovedBy(fn.document, fn.existing)
                                  \cup RemovedBy(fn.document, Prefix(fn.incoming, i - 1))
                IN  /\ emitted.length = fn.incoming[i].length
                    /\ emitted.position = Adjusted(fn.incoming, i) - Cardinality(before)

\* the operations of the k-th list returned by the call
ReturnedList(k) == to_list(fn.after, fn.returned[k])

\* C30: the empty sequence is the identity.  Each of the four transformers,
\* given a non-empty incoming sequence and an empty existing sequence,
\* returns without error a sequence equal to incoming; each swap with one
\* empty side returns the other side unchanged.
C30_EmptyIsIdentity ==
    /\ (/\ fn.name \in {"transform_insert_insert", "transform_delete_insert",
                        "transform_insert_delete", "transform_delete_delete"}
        /\ fn.first # Nil
        /\ fn.second = Nil)
           => /\ fn.raised = ""
              /\ ReturnedList(1) = to_list(fn.before, fn.first)
    /\ fn.name \in {"swap_sequence_delete_insert", "swap_sequence_delete_delete"}
           => /\ fn.first = Nil => ReturnedList(1) = to_list(fn.before, fn.second)
              /\ fn.second = Nil => ReturnedList(2) = to_list(fn.before, fn.first)

\* the states of a sequence of operations, a run of equal states counted once
RECURSIVE StatesInOrder(_)
StatesInOrder(sequence) ==
    IF sequence = <<>> THEN <<>>
    ELSE IF Len(sequence) > 1 /\ sequence[1].state = sequence[2].state
         THEN StatesInOrder(Tail(sequence))
         ELSE <<sequence[1].state>> \o StatesInOrder(Tail(sequence))

\* C31: split pieces keep their origin.  When _transform_delete_delete
\* splits an incoming delete around an existing delete, every piece emitted
\* carries the state of the incoming delete it comes from: the states of the
\* sequence returned are those of the incoming sequence, in order, each
\* repeated once per piece.
C31_SplitKeepsOrigin ==
    (fn.name = "transform_delete_delete" /\ fn.transformed.raised = "") =>
        StatesInOrder(fn.transformed.value) = StatesInOrder(fn.incoming)

\* C32: run to completion.  _transform_delete_delete and
\* _swap_sequence_delete_delete, called on two effect-ordered delete
\* sequences with lengths >= 0 and non-null states, return a result: no call
\* ends in an exception.
C32_RunToCompletion ==
    fn.name \in {"transform_delete_delete", "swap_sequence_delete_delete"}
        => fn.raised = ""

(***************************************************************************)
(* _merge_sequence on its own: an effect-ordered sequence1 on a document,  *)
(* and an effect-ordered sequence2 defined on the document after           *)
(* sequence1, authored by the other site.                                  *)
(***************************************************************************)
SequentialInit == TransformInit

\* what a call of _merge_sequence leaves in fn
Merged(sequence1, sequence2) ==
    [name |-> "merge_sequence", document |-> fn.document, site_id |-> fn.site_id,
     sequence1 |-> sequence1, sequence2 |-> sequence2,
     merged |-> merge_sequence(sequence1, sequence2, None).sequence]

MergeInserts ==
    /\ fn.name = "document"
    /\ \E A \in InsertSequences(Len(fn.document), 0, MaxSeq, 1) :
          \E B \in InsertSequences(LengthAfter(Len(fn.document), A), 0, MaxSeq,
                                   MaxSeq + 1) :
              fn' = Merged(Stamped(A, fn.site_id), Stamped(B, Other(fn.site_id)))
    /\ UNCHANGED <<engines, buffer, sent, log, call>>

MergeDeletes ==
    /\ fn.name = "document"
    /\ \E A \in DeleteSequences(Len(fn.document), 0, MaxSeq) :
          \E B \in DeleteSequences(LengthAfter(Len(fn.document), A), 0, MaxSeq) :
              fn' = Merged(Stamped(A, fn.site_id), Stamped(B, Other(fn.site_id)))
    /\ UNCHANGED <<engines, buffer, sent, log, call>>

SequentialNext == MergeInserts \/ MergeDeletes

SequentialSpec == SequentialInit /\ [][SequentialNext]_vars

\* the document after sequence1 and then sequence2
ExecutedInSequence ==
    ApplySequence(ApplySequence(fn.document, fn.sequence1), fn.sequence2)

\* C33: merge is effect-equivalent to sequential execution.  For
\* effect-ordered S1 and S2, S2 defined on the document after S1,
\* _merge_sequence(S1, S2) holds |S1| + |S2| operations, and applied to the
\* document gives the document that S1 and then S2 gives.
C33_MergeSequential ==
    fn.name = "merge_sequence" =>
        /\ Len(fn.merged) = Len(fn.sequence1) + Len(fn.sequence2)
        /\ ExecutedInSequence # NoDocument
        /\ ApplySequence(fn.document, fn.merged) = ExecutedInSequence

\* a delete of sequence2 spans the point where a delete of sequence1 took
\* effect: the two sequences overlap
Overlap(sequence1, sequence2) ==
    \E i \in 1..Len(sequence2), k \in 1..Len(sequence1) :
        /\ ~IsInsert(sequence2[i])
        /\ Adjusted(sequence2, i) < sequence1[k].position
        /\ sequence1[k].position < Adjusted(sequence2, i) + sequence2[i].length

\* C33 as the code has it: the sequences do not overlap
C33_MergeSequentialWithoutOverlap ==
    (fn.name = "merge_sequence" /\ ~Overlap(fn.sequence1, fn.sequence2)) =>
        /\ Len(fn.merged) = Len(fn.sequence1) + Len(fn.sequence2)
        /\ ExecutedInSequence # NoDocument
        /\ ApplySequence(fn.document, fn.merged) = ExecutedInSequence

\* C33 at work: two delete sequences that do not overlap were merged, a
\* delete of sequence2 going first and a delete of sequence1 shifted by it
C33_Witness ==
    /\ fn.name = "merge_sequence"
    /\ ~Overlap(fn.sequence1, fn.sequence2)
    /\ Len(fn.sequence1) = 2
    /\ Len(fn.sequence2) = 2
    /\ ~IsInsert(fn.sequence1[1])
    /\ fn.merged[1] = fn.sequence2[1]
    /\ \E k \in 1..Len(fn.merged) :
          /\ fn.merged[k].state = fn.sequence1[2].state
          /\ fn.merged[k].position < fn.sequence1[2].position

\* the transactions that the author of transaction i had emitted or
\* integrated when it emitted i
Predecessors(i) ==
    LET author == sent[i].author
        emitted == CHOOSE k \in 1..Len(log[author]) : log[author][k] = <<"process", i>>
    IN  {log[author][k][2] : k \in {j \in 1..(emitted - 1) : log[author][j][1] # "failed"}}

\* site s has every predecessor of transaction i in its history
CausallyReady(s, i) ==
    \A j \in Predecessors(i) : sent[j].author = s \/ j \in Integrated(s)

\* C34: causally ready transactions are accepted.  When a site has
\* integrated every transaction that the author of T had emitted or
\* integrated before it emitted T, integrate_remote(T) at that site does not
\* fail with the causality error.
C34_CausallyReadyAccepted ==
    [][(call'.kind = "integrate" /\ CausallyReady(call'.site, call'.tx))
          => call'.raised # "OTException"]_vars

\* the operations of an engine's history, inserts first
HistoryOf(engine) == engine.inserts \o engine.deletes

\* the local times that the operations of an engine's history carry
LocalTimes(engine) ==
    {HistoryOf(engine)[k].state.local_time : k \in 1..Len(HistoryOf(engine))}

\* C35: stamping is sequential.  Each integrate_remote or
\* process_transaction call increases time_stamp by exactly the number of
\* operations it adds to history, never decreases it, and the operations it
\* adds receive consecutive local_time values greater than every local_time
\* already in history.
C35_SequentialStamping ==
    [][call'.kind \in {"process", "integrate"} =>
          LET before == engines[call'.site]
              after == engines'[call'.site]
              added == Len(HistoryOf(after)) - Len(HistoryOf(before))
              old == LocalTimes(before)
              newest == CHOOSE m \in old \cup {0} : \A t \in old : t <= m
          IN  /\ after.time_stamp >= before.time_stamp
              /\ after.time_stamp - before.time_stamp = added
              /\ LocalTimes(after) \ old = (newest + 1)..(newest + added)]_vars

\* C35 at work: an integrate_remote call added the inserts and the deletes of
\* a transaction to a history that held operations already, and the local
\* times of the history are the clock's readings 1..time_stamp
C35_Witness ==
    /\ call.kind = "integrate"
    /\ call.raised = ""
    /\ Len(log[call.site]) >= 2
    /\ sent[call.tx].transaction.inserts # <<>>
    /\ sent[call.tx].transaction.deletes # <<>>
    /\ engines[call.site].time_stamp >= 4
    /\ Len(HistoryOf(engines[call.site])) = engines[call.site].time_stamp
    /\ LocalTimes(engines[call.site]) = 1..engines[call.site].time_stamp

\* C36: last_state is the newest stamp.  In every state reached from an
\* empty engine in which at least one operation has been added to history,
\* last_state is not None and last_state.local_time equals the engine's
\* time_stamp.
C36_LastStateIsNewest ==
    \A s \in Sites :
        HistoryOf(engines[s]) # <<>> =>
            /\ engines[s].last_state # None
            /\ engines[s].last_state.local_time = engines[s].time_stamp

\* C36 at work: a site has processed a transaction of its own with inserts
\* and deletes and then integrated a remote one whose last operation is a
\* delete, and its last_state is the stamp of the newest operation of its
\* history, which is not the last in position order
C36_Witness ==
    /\ call.kind = "integrate"
    /\ call.raised = ""
    /\ Len(log[call.site]) >= 2
    /\ sent[call.tx].transaction.deletes # <<>>
    /\ LET self == engines[call.site]
       IN  /\ self.last_state.local_time = self.time_stamp
           /\ self.last_state.site_id # self.site_id
           /\ \E k \in 1..(Len(self.deletes) - 1) :
                 self.deletes[k].state = self.last_state

\* the calls of the four transformers that returned
TransformerReturned ==
    /\ fn.name \in {"transform_insert_insert", "transform_delete_insert",
                    "transform_insert_delete", "transform_delete_delete"}
    /\ fn.transformed.raised = ""

\* every operation of `sequence` has a position >= 0 and, a delete, a
\* length >= 0
Nonnegative(sequence) ==
    \A k \in 1..Len(sequence) :
        /\ sequence[k].position >= 0
        /\ IsInsert(sequence[k]) \/ sequence[k].length >= 0

\* C37: outputs stay inside the document.  For valid effect-ordered inputs,
\* every operation a transformer emits has position >= 0 and, for deletes,
\* length >= 0, and the operations applied in sequence to the document that
\* the existing sequence left never address a position beyond its end.
C37_OutputsInsideDocument ==
    TransformerReturned =>
        /\ Nonnegative(fn.transformed.value)
        /\ ApplySequence(ApplySequence(fn.document, fn.existing),
                         fn.transformed.value) # NoDocument

\* C38: position-only transformation.  transform_insert_insert,
\* transform_delete_insert and transform_insert_delete emit exactly one
\* operation per incoming operation, in the same order, with value or length
\* and state equal to the incoming operation's; only the position may differ.
C38_PositionOnly ==
    fn.name \in {"transform_insert_insert", "transform_delete_insert",
                 "transform_insert_delete"} =>
        /\ fn.transformed.raised = ""
        /\ Len(fn.transformed.value) = Len(fn.incoming)
        /\ \A k \in 1..Len(fn.incoming) :
              [fn.transformed.value[k] EXCEPT !.position = fn.incoming[k].position]
                  = fn.incoming[k]

\* C38 at work: transform_delete_insert moved a delete of length 0 and the
\* delete after it past an existing insert
C38_Witness ==
    /\ fn.name = "transform_delete_insert"
    /\ Len(fn.incoming) = 2
    /\ fn.existing # <<>>
    /\ fn.incoming[1].length = 0
    /\ fn.incoming[2].length > 0
    /\ fn.transformed.value[1].position > fn.incoming[1].position
    /\ fn.transformed.value[2].position > fn.incoming[2].position

(***************************************************************************)
(* The wire form of a transaction: the dictionaries that __getstate__ of   *)
(* TransactionSequence, of the operations and of State produce, and        *)
(* TransactionSequence.from_message, which builds a transaction from them. *)
(***************************************************************************)
\* State.__getstate__: Null stands for the null that None is encoded as
Null == [null |-> TRUE]
State_getstate(self) ==
    IF self = None THEN Null
    ELSE [site_id |-> self.site_id, local_time |-> self.local_time,
          remote_time |-> self.remote_time]

\* InsertOperation.__getstate__
InsertOperation_getstate(self) ==
    [state |-> State_getstate(self.state), position |-> self.position,
     type |-> "insert", value |-> self.value]

\* DeleteOperation.__getstate__
DeleteOperation_getstate(self) ==
    [state |-> State_getstate(self.state), position |-> self.position,
     type |-> "remove", length |-> self.length]

\* TransactionSequence.__getstate__, with the operations and the states
\* encoded by their own __getstate__
TransactionSequence_getstate(self) ==
    [inserts |-> [k \in 1..Len(self.inserts) |-> InsertOperation_getstate(self.inserts[k])],
     deletes |-> [k \in 1..Len(self.deletes) |-> DeleteOperation_getstate(self.deletes[k])],
     starting_state |-> State_getstate(self.starting_state)]

\* State.__setstate__ on a State made by State.__new__
State_setstate(state) == State(state.site_id, state.local_time, state.remote_time)

\* the operation that lines 48-49, 55, 63-64 and 70 build from one
\* dictionary: its state is None
OperationOf(message) ==
    IF message.type = "insert" THEN InsertOperation(message.position, message.value)
    ELSE DeleteOperation(message.position, message.length)

\* the loops of lines 54-59 and 69-74: `built` ends with the node that
\* inode (dnode) refers to; the new node is linked after it, the state read
\* is assigned to inode.value, and inode moves to the new node
RECURSIVE FromMessageLoop(_, _)
FromMessageLoop(rest, built) ==
    IF rest = <<>> THEN built
    ELSE FromMessageLoop(Tail(rest),
             Append([built EXCEPT ![Len(built)].state = State_setstate(Head(rest).state)],
                    OperationOf(Head(rest))))

\* lines 47-61 and 62-76 for one list of the message
FromMessageList(list) ==
    IF Len(list) > 0 THEN
        FromMessageLoop(Tail(list),
            <<[OperationOf(list[1]) EXCEPT !.state = State_setstate(list[1].state)]>>)
    ELSE <<>>

\* TransactionSequence.from_message: __setstate__ subscripts the state it
\* is given, which raises TypeError on a null
from_message(message) ==
    IF \E k \in 1..Len(message.inserts) : message.inserts[k].state = Null THEN
        Raise("TypeError")
    ELSE IF \E k \in 1..Len(message.deletes) : message.deletes[k].state = Null THEN
        Raise("TypeError")
    ELSE Return(TransactionSequence(
             IF message.starting_state # Null THEN State_setstate(message.starting_state)
             ELSE None,
             FromMessageList(message.inserts),
             FromMessageList(message.deletes)))

(***************************************************************************)
(* A transaction on the wire: a site encodes a transaction of its own and  *)
(* the other site decodes the message.                                     *)
(***************************************************************************)
WireInit == TransformInit

\* the site encodes a transaction: inserts and deletes on its document, as
\* the caller builds them or as process_transaction stamped them, starting
\* from None or from a state of the other site
Encode ==
    /\ fn.name = "document"
    /\ \E I \in InsertSequences(Len(fn.document), 0, MaxSeq, 1) :
          \E D \in DeleteSequences(Len(fn.document), 0, MaxSeq) :
              \E stamped \in BOOLEAN, starting_state \in {None, State(Other(fn.site_id), 1, 1)} :
                  LET self == [Engine(fn.site_id) EXCEPT !.time_stamp = 1]
                      inserts == assign_timestamps(self, I)
                      deletes == assign_timestamps(
                                     [self EXCEPT !.time_stamp = inserts.time_stamp], D)
                      transaction ==
                          IF stamped
                          THEN TransactionSequence(starting_state, inserts.sequence,
                                                   deletes.sequence)
                          ELSE TransactionSequence(starting_state, I, D)
                  IN  fn' = [name |-> "message", document |-> fn.document,
                             site_id |-> fn.site_id, transaction |-> transaction,
                             message |-> TransactionSequence_getstate(transaction)]
    /\ UNCHANGED <<engines, buffer, sent, log, call>>

\* the other site decodes the message
Decode ==
    /\ fn.name = "message"
    /\ fn' = [name |-> "from_message", document |-> fn.document, site_id |-> fn.site_id,
              transaction |-> fn.transaction, message |-> fn.message,
              received |-> from_message(fn.message)]
    /\ UNCHANGED <<engines, buffer, sent, log, call>>

WireNext == Encode \/ Decode

WireSpec == WireInit /\ [][WireNext]_vars

\* every operation of the transaction has a state
AllStamped(transaction) ==
    /\ \A k \in 1..Len(transaction.inserts) : transaction.inserts[k].state # None
    /\ \A k \in 1..Len(transaction.deletes) : transaction.deletes[k].state # None

\* C39: wire round trip.  For every transaction T whose operations all have
\* states, from_message applied to the message form of T yields a
\* transaction with the same starting_state and the same operations in the
\* same order, each operation carrying the state given for it in the
\* message, the last operation of each sequence included.
C39_WireRoundTrip ==
    (fn.name = "from_message" /\ AllStamped(fn.transaction)) =>
        /\ fn.received.raised = ""
        /\ fn.received.value = fn.transaction

=============================================================================
